---- MODULE Spec2Model ----
(***************************************************************************)
(* Model of the message classification, chunking and headline pipeline of *)
(* src/app.js (parseCommand, splitScriptIntoChunks, processAgenda,         *)
(* processHeadlineSelection).                                              *)
(*                                                                         *)
(* Text is a sequence of tokens.  A token is a record [k, n]: k is the     *)
(* kind of character(s) and n a number.  The regular expressions of the    *)
(* code only look at whitespace, newlines, sentence terminators, colons,   *)
(* dots, digits and the command keywords; a run of n other characters is   *)
(* the single token W(n), which every operation of the code treats as an   *)
(* opaque block of length n; SPN(n) is a run of n spaces.  The editorial,  *)
(* script, visuals and voice paths add the markers of the generated text   *)
(* ("Vision Point Script", "---") and the names of voices.                 *)
(***************************************************************************)
EXTENDS Integers, Sequences, FiniteSets, TLC

VARIABLES
  script, chunks, cpc,       \* a call of splitScriptIntoChunks
  messageText, cmd, ppc,     \* a call of parseCommand
  upserts,                   \* the arrays m.messages of the batch events
  now,                       \* Date.now(), in milliseconds
  currentHeadlines,          \* remoteJid -> stored headlines and timestamp
  inv,                       \* the invocations of the message handler
  apiCalls,                  \* requests made to the text service, in order
  sent                       \* calls of sock.sendMessage, in order

chunkVars == <<script, chunks, cpc>>

parseVars == <<messageText, cmd, ppc, upserts>>

botVars == <<now, currentHeadlines, inv, apiCalls, sent>>

vars == <<script, chunks, cpc, messageText, cmd, ppc, upserts,
          now, currentHeadlines, inv, apiCalls, sent>>

(***************************** tokens *************************************)
W(n) == [k |-> "w", n |-> n]
SP == [k |-> "s", n |-> 1]
SPN(n) == [k |-> "s", n |-> n]
NL == [k |-> "n", n |-> 1]
TERM == [k |-> "t", n |-> 1]
COLON == [k |-> ":", n |-> 1]
DOT == [k |-> ".", n |-> 1]
\* the decimal digit d
D(d) == [k |-> "d", n |-> d]
\* a command keyword; uc = 1 when some of its letters are upper case
KW(word, uc) == [k |-> word, n |-> uc]

Keywords == {"topic", "script", "visuals", "voice", "agenda"}

IsWS(c) == c.k \in {"s", "n"}

TokLen(c) ==
  IF c.k \in {"w", "s"} THEN c.n
  ELSE IF c.k \in {"topic", "voice"} THEN 5
  ELSE IF c.k \in {"script", "agenda", "faisal"} THEN 6
  ELSE IF c.k = "visuals" THEN 7
  ELSE IF c.k = "zara" THEN 4
  ELSE IF c.k = "rule" THEN 3
  ELSE IF c.k = "vps" THEN 19 + 4 * (3 - c.n)
  ELSE 1

RECURSIVE TextLen(_)
TextLen(s) == IF s = <<>> THEN 0 ELSE TokLen(Head(s)) + TextLen(Tail(s))

SetMax(S) == CHOOSE x \in S : \A y \in S : y <= x
SetMin(S) == CHOOSE x \in S : \A y \in S : x <= y

Trim(s) ==
  LET nz == {i \in 1..Len(s) : ~IsWS(s[i])}
  IN IF nz = {} THEN <<>> ELSE SubSeq(s, SetMin(nz), SetMax(nz))

(************************ splitScriptIntoChunks ***************************)
minChunkSize == 1050
targetChunkSize == 1200
maxChunkSize == 1650

\* /\n\s*\n/ matched at p: the greedy \s* runs to the last newline of the
\* whitespace run that starts at p; 0 when there is no match at p.
ParaSepEnd(s, p) ==
  LET js == {j \in (p + 1)..Len(s) :
               s[j].k = "n" /\ \A q \in p..j : IsWS(s[q])}
  IN IF s[p].k = "n" /\ js # {} THEN SetMax(js) ELSE 0

RECURSIVE SplitParagraphsFrom(_, _)
SplitParagraphsFrom(s, from) ==
  LET ps == {p \in from..Len(s) : ParaSepEnd(s, p) # 0}
  IN IF ps = {} THEN <<SubSeq(s, from, Len(s))>>
     ELSE LET p == SetMin(ps)
          IN <<SubSeq(s, from, p - 1)>> \o SplitParagraphsFrom(s, ParaSepEnd(s, p) + 1)

\* script.split(/\n\s*\n/)
SplitParagraphs(s) == SplitParagraphsFrom(s, 1)

\* text.split(/([۔؟!])/) walked two entries at a time: each sentence with
\* its terminator, and last the text after the final terminator.
RECURSIVE SplitSentencesFrom(_, _)
SplitSentencesFrom(s, from) ==
  LET ts == {p \in from..Len(s) : s[p].k = "t"}
  IN IF ts = {} THEN <<SubSeq(s, from, Len(s))>>
     ELSE <<SubSeq(s, from, SetMin(ts))>> \o SplitSentencesFrom(s, SetMin(ts) + 1)

SplitSentences(s) == SplitSentencesFrom(s, 1)

RECURSIVE ConcatAll(_)
ConcatAll(ss) == IF ss = <<>> THEN <<>> ELSE Head(ss) \o ConcatAll(Tail(ss))

\* The sentence walk of the paragraph pass: the first i whose prefix of
\* sentences has a length in [minChunkSize, maxChunkSize]; 0 when none.
SentenceBreak(sentences) ==
  LET ok == {i \in 1..Len(sentences) :
               LET l == TextLen(ConcatAll(SubSeq(sentences, 1, i)))
               IN l >= minChunkSize /\ l <= maxChunkSize}
  IN IF ok = {} THEN 0 ELSE SetMin(ok)

BufferIsChunkAlways(cur) == TRUE

\* line 767: the buffer is large enough to be a chunk of its own
BufferIsChunk(cur) == TextLen(cur) >= minChunkSize

EmitAtBoundaryDroppingParagraph(st, paragraph) ==
  [chunks |-> Append(st.chunks, Trim(st.currentChunk)), currentChunk |-> <<>>]

\* lines 768-770: emit the buffer, start the next one with the paragraph
EmitAtBoundary(st, paragraph) ==
  [chunks |-> Append(st.chunks, Trim(st.currentChunk)), currentChunk |-> paragraph]

\* One iteration of the paragraph loop on state st = [chunks, currentChunk].
ParagraphStep(paragraphs, idx, st) ==
  LET paragraph == Trim(paragraphs[idx])
      cur0 == st.currentChunk
      \* lines 765-780
      st1 ==
        IF Len(cur0) > 0 /\ TextLen(cur0) + TextLen(paragraph) > maxChunkSize
        THEN IF BufferIsChunk(cur0)
             THEN EmitAtBoundary(st, paragraph)
             ELSE [chunks |-> st.chunks, currentChunk |-> cur0 \o <<NL, NL>> \o paragraph]
        ELSE IF Len(cur0) = 0
             THEN [chunks |-> st.chunks, currentChunk |-> paragraph]
             ELSE [chunks |-> st.chunks, currentChunk |-> cur0 \o <<NL, NL>> \o paragraph]
      cur1 == st1.currentChunk
      more == idx < Len(paragraphs)
      sentences == SplitSentences(cur1)
      brk == SentenceBreak(sentences)
  IN IF paragraph = <<>> THEN st
     ELSE IF TextLen(cur1) >= minChunkSize
     THEN IF TextLen(cur1) >= targetChunkSize /\ more
          THEN [chunks |-> Append(st1.chunks, Trim(cur1)), currentChunk |-> <<>>]
          ELSE IF TextLen(cur1) >= maxChunkSize - 200 /\ more
               THEN IF brk # 0
                    THEN [chunks |-> Append(st1.chunks,
                                            Trim(ConcatAll(SubSeq(sentences, 1, brk)))),
                          currentChunk |->
                             Trim(ConcatAll(SubSeq(sentences, brk + 1, Len(sentences))))]
                    ELSE st1
               ELSE st1
     ELSE st1

RECURSIVE ParagraphPass(_, _, _)
ParagraphPass(paragraphs, idx, st) ==
  IF idx > Len(paragraphs) THEN st
  ELSE ParagraphPass(paragraphs, idx + 1, ParagraphStep(paragraphs, idx, st))

\* One iteration of the sentence loop of the fallback (lines 834-852).
SentenceStep(sentence, st) ==
  LET cur0 == st.currentChunk
      st1 ==
        IF Len(cur0) > 0 /\ TextLen(cur0) + TextLen(sentence) > maxChunkSize
        THEN [chunks |-> Append(st.chunks, Trim(cur0)), currentChunk |-> sentence]
        ELSE [chunks |-> st.chunks, currentChunk |-> cur0 \o sentence]
  IN IF TextLen(st1.currentChunk) >= targetChunkSize
     THEN [chunks |-> Append(st1.chunks, Trim(st1.currentChunk)), currentChunk |-> <<>>]
     ELSE st1

RECURSIVE SentencePass(_, _, _)
SentencePass(sentences, idx, st) ==
  IF idx > Len(sentences) THEN st
  ELSE SentencePass(sentences, idx + 1, SentenceStep(sentences[idx], st))

FlushNothing(st) == st.chunks

\* lines 821-826 and 854-857: the remaining buffer becomes the last chunk
FlushRemaining(st) ==
  IF Trim(st.currentChunk) # <<>>
  THEN Append(st.chunks, Trim(st.currentChunk))
  ELSE st.chunks

splitScriptIntoChunks(s) ==
  IF Len(s) = 0 THEN <<>>
  ELSE
    LET paragraphs == SplitParagraphs(s)
        afterParagraphs ==
          FlushRemaining(ParagraphPass(paragraphs, 1,
                                       [chunks |-> <<>>, currentChunk |-> <<>>]))
        afterSentences ==
          IF Len(afterParagraphs) = 0 /\ TextLen(s) > maxChunkSize
          THEN FlushRemaining(SentencePass(SplitSentences(s), 1,
                                           [chunks |-> <<>>, currentChunk |-> <<>>]))
          ELSE afterParagraphs
    IN IF Len(afterSentences) = 0 THEN <<s>> ELSE afterSentences


(***************************** parseCommand *******************************)
NoCapture == <<[k |-> "nomatch", n |-> 0]>>

Command(type, content, voiceName, number) ==
  [type |-> type, content |-> content, voiceName |-> voiceName, number |-> number]

\* return null
NullCommand == Command("null", <<>>, <<>>, 0)

\* the index after the greedy \s* that starts at index from
SkipWS(t, from) ==
  LET stop == {i \in from..Len(t) : ~IsWS(t[i])}
  IN IF stop = {} THEN Len(t) + 1 ELSE SetMin(stop)

\* \s*([\s\S]+)$ at index from: the group takes the rest of the text after
\* the whitespace; when only whitespace is left the \s* gives back one
\* character to the group.
RestGroup(t, from) ==
  IF from > Len(t) THEN NoCapture
  ELSE IF SkipWS(t, from) <= Len(t) THEN SubSeq(t, SkipWS(t, from), Len(t))
  ELSE SubSeq(t, Len(t), Len(t))

KeywordColonMatchCaseSensitive(t, word) ==
  IF Len(t) >= 1 /\ t[1] = KW(word, 0)
  THEN LET c == SkipWS(t, 2)
       IN IF c <= Len(t) /\ t[c] = COLON THEN RestGroup(t, c + 1) ELSE NoCapture
  ELSE NoCapture

\* /^word\s*:\s*([\s\S]+)$/i; the i flag accepts the keyword in any case
KeywordColonMatch(t, word) ==
  IF Len(t) >= 1 /\ t[1].k = word
  THEN LET c == SkipWS(t, 2)
       IN IF c <= Len(t) /\ t[c] = COLON THEN RestGroup(t, c + 1) ELSE NoCapture
  ELSE NoCapture

\* /^voice\s+([^:]+)\s*:\s*([\s\S]+)$/i: <<group 1, group 2>>.  [^:]+ runs
\* to the first colon; when only whitespace stands before that colon the
\* \s+ gives back its last character to group 1.
VoicePersonMatch(t) ==
  IF Len(t) >= 2 /\ t[1].k = "voice" /\ IsWS(t[2])
  THEN LET colons == {i \in 2..Len(t) : t[i] = COLON}
           c == IF colons = {} THEN 0 ELSE SetMin(colons)
           g == SkipWS(t, 2)
           nameFrom == IF g < c THEN g ELSE c - 1
       IN IF c = 0 \/ nameFrom < 3 \/ RestGroup(t, c + 1) = NoCapture
          THEN NoCapture
          ELSE <<SubSeq(t, nameFrom, c - 1), RestGroup(t, c + 1)>>
  ELSE NoCapture

\* /^agenda$/i
AgendaMatch(t) == Len(t) = 1 /\ t[1].k = "agenda"

\* /^(\d+)$/
NumberMatch(t) == Len(t) >= 1 /\ \A i \in 1..Len(t) : t[i].k = "d"

\* parseInt of a string of decimal digits
RECURSIVE parseInt(_)
parseInt(ds) ==
  IF ds = <<>> THEN 0 ELSE 10 * parseInt(SubSeq(ds, 1, Len(ds) - 1)) + ds[Len(ds)].n

InHeadlineRangeFromZero(num) == num >= 0 /\ num <= 10

\* line 344
InHeadlineRange(num) == num >= 1 /\ num <= 10

\* lines 314-331 with the two voice checks in the other order
VoiceCommandsPlainFirst(text) ==
  IF KeywordColonMatch(text, "voice") # NoCapture
  THEN Command("voice", Trim(KeywordColonMatch(text, "voice")), <<>>, 0)
  ELSE IF VoicePersonMatch(text) # NoCapture
  THEN Command("voice_person", Trim(VoicePersonMatch(text)[2]),
               Trim(VoicePersonMatch(text)[1]), 0)
  ELSE NullCommand

\* lines 314-331: the voice command with a person's name, then the plain one
VoiceCommands(text) ==
  IF VoicePersonMatch(text) # NoCapture
  THEN Command("voice_person", Trim(VoicePersonMatch(text)[2]),
               Trim(VoicePersonMatch(text)[1]), 0)
  ELSE IF KeywordColonMatch(text, "voice") # NoCapture
  THEN Command("voice", Trim(KeywordColonMatch(text, "voice")), <<>>, 0)
  ELSE NullCommand

parseCommand(msg) ==
  LET text == Trim(msg)
  IN IF KeywordColonMatch(text, "topic") # NoCapture
     THEN Command("topic", Trim(KeywordColonMatch(text, "topic")), <<>>, 0)
     ELSE IF KeywordColonMatch(text, "script") # NoCapture
     THEN Command("script", Trim(KeywordColonMatch(text, "script")), <<>>, 0)
     ELSE IF KeywordColonMatch(text, "visuals") # NoCapture
     THEN Command("visuals", Trim(KeywordColonMatch(text, "visuals")), <<>>, 0)
     ELSE IF VoiceCommands(text) # NullCommand
     THEN VoiceCommands(text)
     ELSE IF AgendaMatch(text)
     THEN Command("agenda", <<>>, <<>>, 0)
     ELSE IF NumberMatch(text) /\ InHeadlineRange(parseInt(text))
     THEN Command("number", <<>>, <<>>, parseInt(text))
     ELSE NullCommand


(******************* agenda and headline selection ************************)
\* the Content group and a personal chat
Channels == {"content", "chat"}

\* currentHeadlines[remoteJid] is undefined
NoSession == [present |-> FALSE, headlines |-> <<>>, timestamp |-> 0]

\* a failed request: callHeadlinesAPI and callPerplexityAPI return null
Null == <<[k |-> "null", n |-> 0]>>

\* if (response): null and the empty string are falsy
Truthy(response) == response # Null /\ response # <<>>

\* the text of a sock.sendMessage: a fixed message of the code (msg), or
\* msg = "raw" and the text handed over; n is the number shown in the message
Body(msg, text, n) == [msg |-> msg, text |-> text, n |-> n]

\* s.split('\n')
RECURSIVE SplitLinesFrom(_, _)
SplitLinesFrom(s, from) ==
  LET ns == {p \in from..Len(s) : s[p] = NL}
  IN IF ns = {} THEN <<SubSeq(s, from, Len(s))>>
     ELSE <<SubSeq(s, from, SetMin(ns) - 1)>> \o SplitLinesFrom(s, SetMin(ns) + 1)

SplitLines(s) == SplitLinesFrom(s, 1)

\* the index after the digits that start the line
AfterDigits(line) ==
  LET stop == {i \in 1..Len(line) : line[i].k # "d"}
  IN IF stop = {} THEN Len(line) + 1 ELSE SetMin(stop)

\* line.match(/^\d+\./)
IsNumberedLine(line) ==
  /\ AfterDigits(line) > 1
  /\ AfterDigits(line) <= Len(line)
  /\ line[AfterDigits(line)] = DOT

\* response.split('\n').filter(line => line.match(/^\d+\./))
HeadlineLines(response) == SelectSeq(SplitLines(response), IsNumberedLine)

StripNothing(line) == line

\* selectedHeadline.replace(/^\d+\.\s*/, '')
StripNumberPrefix(line) ==
  IF IsNumberedLine(line)
  THEN SubSeq(line, SkipWS(line, AfterDigits(line) + 1), Len(line))
  ELSE line

oneHour == 3600000

SessionExpiredAtOneHour(session, t) == t - session.timestamp >= oneHour

SessionNeverExpired(session, t) == FALSE

\* line 1336: (Date.now() - userHeadlines.timestamp) > 3600000
SessionExpired(session, t) == t - session.timestamp > oneHour

\* line 1343
NumberOutOfRange(number, headlines) == number < 1 \/ number > Len(headlines)

StoreHeadlinesIfAbsent(store, remoteJid, headlineLines, t) ==
  IF store[remoteJid].present THEN store
  ELSE [store EXCEPT ![remoteJid] =
          [present |-> TRUE, headlines |-> headlineLines, timestamp |-> t]]

\* lines 1306-1309
StoreHeadlines(store, remoteJid, headlineLines, t) ==
  [store EXCEPT ![remoteJid] =
     [present |-> TRUE, headlines |-> headlineLines, timestamp |-> t]]

\* an invocation of handleIncomingMessages for one message: its command,
\* the chat it came from, the locals of the running function (userHeadlines,
\* the time read, headlineText, response) and where it is suspended:
\*   "api"        awaiting the text service
\*   "send"       awaiting sock.sendMessage inside the try block
\*   "catchSend"  awaiting sock.sendMessage inside the catch block
\*   "done"       returned
Invocation(type, remoteJid, number, pc, userHeadlines, at, headlineText) ==
  [type |-> type, remoteJid |-> remoteJid, number |-> number, pc |-> pc,
   userHeadlines |-> userHeadlines, at |-> at, headlineText |-> headlineText,
   response |-> Null, escaped |-> FALSE]

\* sock.sendMessage(remoteJid, {text}) called by invocation i
SendMessage(log, i, remoteJid, body) ==
  Append(log, [inv |-> i, remoteJid |-> remoteJid, body |-> body, result |-> "pending"])

\* the call of sock.sendMessage that invocation i is awaiting
PendingSend(i) ==
  SetMax({j \in 1..Len(sent) : sent[j].inv = i})

\* processAgenda up to its first await (lines 1297-1301)
StartAgenda(i, remoteJid) ==
  /\ inv' = Append(inv, Invocation("agenda", remoteJid, 0, "api", NoSession, now, <<>>))
  /\ apiCalls' = Append(apiCalls, [inv |-> i, api |-> "headlines", number |-> 0, text |-> <<>>])
  /\ UNCHANGED <<sent, currentHeadlines>>

\* processHeadlineSelection deleting the entry it finds expired
StartHeadlineSelectionDropsExpired(i, number, remoteJid) ==
  LET userHeadlines == currentHeadlines[remoteJid]
  IN IF ~userHeadlines.present \/ SessionExpired(userHeadlines, now)
     THEN /\ sent' = SendMessage(sent, i, remoteJid, Body("NoRecentHeadlines", <<>>, 0))
          /\ inv' = Append(inv, Invocation("number", remoteJid, number, "send",
                                           userHeadlines, now, <<>>))
          /\ currentHeadlines' = [currentHeadlines EXCEPT ![remoteJid] = NoSession]
          /\ UNCHANGED apiCalls
     ELSE IF NumberOutOfRange(number, userHeadlines.headlines)
     THEN /\ sent' = SendMessage(sent, i, remoteJid,
                                 Body("InvalidNumber", <<>>, Len(userHeadlines.headlines)))
          /\ inv' = Append(inv, Invocation("number", remoteJid, number, "send",
                                           userHeadlines, now, <<>>))
          /\ UNCHANGED <<apiCalls, currentHeadlines>>
     ELSE LET headlineText == StripNumberPrefix(userHeadlines.headlines[number])
          IN /\ apiCalls' = Append(apiCalls, [inv |-> i, api |-> "perplexity",
                                              number |-> number, text |-> headlineText])
             /\ inv' = Append(inv, Invocation("number", remoteJid, number, "api",
                                              userHeadlines, now, headlineText))
             /\ UNCHANGED <<sent, currentHeadlines>>

\* processHeadlineSelection up to its first await (lines 1332-1388)
StartHeadlineSelection(i, number, remoteJid) ==
  LET userHeadlines == currentHeadlines[remoteJid]
  IN IF ~userHeadlines.present \/ SessionExpired(userHeadlines, now)
     THEN /\ sent' = SendMessage(sent, i, remoteJid, Body("NoRecentHeadlines", <<>>, 0))
          /\ inv' = Append(inv, Invocation("number", remoteJid, number, "send",
                                           userHeadlines, now, <<>>))
          /\ UNCHANGED <<apiCalls, currentHeadlines>>
     ELSE IF NumberOutOfRange(number, userHeadlines.headlines)
     THEN /\ sent' = SendMessage(sent, i, remoteJid,
                                 Body("InvalidNumber", <<>>, Len(userHeadlines.headlines)))
          /\ inv' = Append(inv, Invocation("number", remoteJid, number, "send",
                                           userHeadlines, now, <<>>))
          /\ UNCHANGED <<apiCalls, currentHeadlines>>
     ELSE LET headlineText == StripNumberPrefix(userHeadlines.headlines[number])
          IN /\ apiCalls' = Append(apiCalls, [inv |-> i, api |-> "perplexity",
                                              number |-> number, text |-> headlineText])
             /\ inv' = Append(inv, Invocation("number", remoteJid, number, "api",
                                              userHeadlines, now, headlineText))
             /\ UNCHANGED <<sent, currentHeadlines>>

MaxInvocations == 2

\* the 10-line numbered list "1. h1" ... "10. h10"; headline k is W(100 + k)
RECURSIVE NumberedList(_, _)
NumberedList(from, to) ==
  LET num == IF from >= 10 THEN <<D(from \div 10), D(from % 10)>> ELSE <<D(from)>>
      line == num \o <<DOT, SP, W(100 + from)>>
  IN IF from = to THEN line ELSE line \o <<NL>> \o NumberedList(from + 1, to)

TenHeadlines == NumberedList(1, 10)

\* a title, a blank line, three numbered headlines with other words, a
\* blank line and a closing line
ThreeHeadlines ==
  <<W(20), NL, NL, D(1), DOT, SP, W(201), NL, D(2), DOT, W(202), NL,
    D(3), DOT, SP, SP, W(203), SP, NL, NL, W(30), SP, D(1), DOT>>

\* what the headlines request can return: a text, the empty text, or null
HeadlinesResponses == {TenHeadlines, ThreeHeadlines, <<>>, Null}

\* what the script request can return
ScriptResponses == {<<W(4000)>>, Null}

\* the texts of the inbound messages: "Agenda " and the numbers 3 and 10
InboundTexts == {<<KW("agenda", 1), SP>>, <<D(3)>>, <<D(1), D(0)>>}

\* the instants at which the clock is read: the start, then 59 minutes,
\* one hour, one hour and a millisecond, and 65 minutes later
Instants == {0, 3540000, 3600000, 3600001, 3900000}

(************************* chunker specification **************************)
MaxTokens == 6

WordLens == {600, 1100, 1700}

\* words, a space, a run of spaces longer than maxChunkSize, a newline and
\* a sentence terminator
ScriptTokens == {W(n) : n \in WordLens} \cup {SP, SPN(maxChunkSize + 50), NL, TERM}

\* no call of splitScriptIntoChunks is being followed
ChunkIdle ==
  /\ script = <<>>
  /\ chunks = <<>>
  /\ cpc = "idle"

\* the bot has just started
BotStart ==
  /\ now = 0
  /\ currentHeadlines = [c \in Channels |-> NoSession]
  /\ inv = <<>>
  /\ apiCalls = <<>>
  /\ sent = <<>>

\* no call of parseCommand is being followed
ParseIdle ==
  /\ messageText = <<>>
  /\ cmd = NullCommand
  /\ ppc = "idle"
  /\ upserts = <<>>

ChunkInit ==
  /\ script = <<>>
  /\ chunks = <<>>
  /\ cpc = "input"
  /\ ParseIdle
  /\ BotStart

\* the caller's text, one token at a time
TypeScript ==
  /\ cpc = "input"
  /\ Len(script) < MaxTokens
  /\ \E c \in ScriptTokens : script' = Append(script, c)
  /\ UNCHANGED <<chunks, cpc, parseVars, botVars>>

\* const chunks = splitScriptIntoChunks(script)
CallSplitScript ==
  /\ cpc = "input"
  /\ chunks' = splitScriptIntoChunks(script)
  /\ cpc' = "done"
  /\ UNCHANGED <<script, parseVars, botVars>>

ChunkNext == TypeScript \/ CallSplitScript

ChunkSpec == ChunkInit /\ [][ChunkNext]_vars

(**************************** chunker claims ******************************)
ChunkLens == [i \in 1..Len(chunks) |-> TextLen(chunks[i])]

NonBlank(s) == SelectSeq(s, LAMBDA c : ~IsWS(c))

\* the non-empty trimmed paragraphs of a text, in order
RealParagraphs(s) ==
  LET ps == SplitParagraphs(s)
  IN SelectSeq([i \in 1..Len(ps) |-> Trim(ps[i])], LAMBDA q : q # <<>>)

RECURSIVE JoinParagraphs(_)
JoinParagraphs(ps) ==
  IF ps = <<>> THEN <<>>
  ELSE IF Len(ps) = 1 THEN ps[1]
  ELSE ps[1] \o <<NL, NL>> \o JoinParagraphs(Tail(ps))

\* a paragraph without terminator, or a single sentence, longer than maxSize
HasOversizedUnit(s) ==
  \E i \in 1..Len(RealParagraphs(s)) :
    LET ss == SplitSentences(RealParagraphs(s)[i])
    IN \E j \in 1..Len(ss) : TextLen(Trim(ss[j])) > maxChunkSize

\* a sentence terminator with text after it
HasSentenceBoundary(s) ==
  \E p \in 1..Len(s) : s[p].k = "t" /\ \E q \in (p + 1)..Len(s) : ~IsWS(s[q])

\* C1: no chunk is longer than maxSize, unless the input contains a single
\* unsplittable unit (a paragraph without terminator, a single sentence)
\* longer than maxSize.
C1_NoChunkOverMax ==
  cpc = "done" =>
    \/ \A i \in 1..Len(chunks) : TextLen(chunks[i]) <= maxChunkSize
    \/ HasOversizedUnit(script)

\* C2: for a non-empty input the output is non-empty, and the chunks joined
\* in order with the paragraph separator are the input with its paragraph
\* separators and outer whitespace normalised; no character that is not
\* whitespace is dropped, duplicated or moved.
C2_ChunksReassemble ==
  cpc = "done" =>
    /\ Len(script) > 0 => Len(chunks) > 0
    /\ Trim(JoinParagraphs(chunks)) = JoinParagraphs(RealParagraphs(script))
    /\ NonBlank(ConcatAll(chunks)) = NonBlank(script)

\* C2 witness: a text cut into several chunks at separators that the join
\* normalises
C2_Witness ==
  /\ cpc = "done"
  /\ Len(chunks) >= 2
  /\ ConcatAll(chunks) # script
  /\ JoinParagraphs(chunks) # script

\* C3: an input without paragraph boundary that is longer than maxSize and
\* has a sentence boundary is split into several chunks, not returned whole.
C3_SentenceFallbackSplits ==
  (/\ cpc = "done"
   /\ Len(SplitParagraphs(script)) = 1
   /\ TextLen(script) > maxChunkSize
   /\ HasSentenceBoundary(script))
  => Len(chunks) >= 2

\* C4 as stated: every chunk has a length in [minSize, maxSize], except a
\* final chunk that is the only chunk, which may be shorter than minSize.
C4_Original ==
  cpc = "done" =>
    \A i \in 1..Len(chunks) :
      /\ TextLen(chunks[i]) <= maxChunkSize
      /\ TextLen(chunks[i]) >= minChunkSize \/ Len(chunks) = 1

\* C4 amended: every chunk but the final one has at least minSize
\* characters; the final chunk may be shorter whether or not it is the only
\* one, and maxSize bounds no chunk.
C4_NonFinalAtLeastMin ==
  cpc = "done" =>
    \A i \in 1..Len(chunks) : i < Len(chunks) => TextLen(chunks[i]) >= minChunkSize

\* C4 witness: several chunks, the last one shorter than minSize
C4_Witness ==
  /\ cpc = "done"
  /\ Len(chunks) >= 2
  /\ TextLen(chunks[Len(chunks)]) < minChunkSize
  /\ \E i \in 1..Len(chunks) : TextLen(chunks[i]) < targetChunkSize /\ i < Len(chunks)

(************************ classifier specifications ***********************)
MaxMsgTokens == 6

\* messages around the voice commands
VoiceAlphabet == {KW("voice", 0), KW("voice", 1), COLON, SP, NL, W(1), W(2)}

\* messages around the headline numbers
NumberAlphabet == {D(0), D(1), D(2), D(9), SP, W(1)}

ParseInit ==
  /\ messageText = <<>>
  /\ cmd = NullCommand
  /\ ppc = "input"
  /\ upserts = <<>>
  /\ ChunkIdle
  /\ BotStart

\* the text of the inbound message, one token at a time
TypeMessage(alphabet) ==
  /\ ppc = "input"
  /\ Len(messageText) < MaxMsgTokens
  /\ \E c \in alphabet : messageText' = Append(messageText, c)
  /\ UNCHANGED <<cmd, ppc, upserts, chunkVars, botVars>>

\* const commandResult = parseCommand(messageText)
CallParseCommand ==
  /\ ppc = "input"
  /\ cmd' = parseCommand(messageText)
  /\ ppc' = "done"
  /\ UNCHANGED <<messageText, upserts, chunkVars, botVars>>

TypeVoiceMessage == TypeMessage(VoiceAlphabet)

TypeNumberMessage == TypeMessage(NumberAlphabet)

VoiceNext == TypeVoiceMessage \/ CallParseCommand

NumberNext == TypeNumberMessage \/ CallParseCommand

VoiceParseSpec == ParseInit /\ [][VoiceNext]_vars

NumberParseSpec == ParseInit /\ [][NumberNext]_vars


(************************** bot specification *****************************)
Init ==
  /\ BotStart
  /\ ChunkIdle
  /\ ParseIdle

\* time passes
Tick ==
  /\ \E t \in Instants :
       /\ t > now
       /\ now' = t
  /\ UNCHANGED <<currentHeadlines, inv, apiCalls, sent, chunkVars, parseVars>>

\* handleIncomingMessages for a text message of another user, with
\* handleCommand, up to the first await of the command's function
ReceiveMessage ==
  /\ Len(inv) < MaxInvocations
  /\ \E remoteJid \in Channels, text \in InboundTexts :
       LET commandResult == parseCommand(text)
           i == Len(inv) + 1
       IN IF commandResult.type = "agenda"
          THEN StartAgenda(i, remoteJid)
          ELSE IF commandResult.type = "number"
          THEN StartHeadlineSelection(i, commandResult.number, remoteJid)
          ELSE UNCHANGED <<inv, apiCalls, sent, currentHeadlines>>
  /\ UNCHANGED <<now, chunkVars, parseVars>>

\* callHeadlinesAPI returns to processAgenda (lines 1301-1320)
HeadlinesReturn ==
  /\ \E i \in 1..Len(inv), response \in HeadlinesResponses :
       /\ inv[i].type = "agenda"
       /\ inv[i].pc = "api"
       /\ inv' = [inv EXCEPT ![i].pc = "send", ![i].response = response]
       /\ IF Truthy(response)
          THEN /\ currentHeadlines' = StoreHeadlines(currentHeadlines, inv[i].remoteJid,
                                                     HeadlineLines(response), now)
               /\ sent' = SendMessage(sent, i, inv[i].remoteJid, Body("raw", response, 0))
          ELSE /\ sent' = SendMessage(sent, i, inv[i].remoteJid,
                                      Body("FailedToFetchHeadlines", <<>>, 0))
               /\ UNCHANGED currentHeadlines
  /\ UNCHANGED <<now, apiCalls, chunkVars, parseVars>>

\* callPerplexityAPI returns and the selection looks at the store again
ScriptReturnRereadsStore ==
  /\ \E i \in 1..Len(inv), response \in ScriptResponses :
       /\ inv[i].type = "number"
       /\ inv[i].pc = "api"
       /\ inv' = [inv EXCEPT ![i].pc = "send", ![i].response = response]
       /\ IF currentHeadlines[inv[i].remoteJid] # inv[i].userHeadlines
          THEN sent' = SendMessage(sent, i, inv[i].remoteJid,
                                   Body("NoRecentHeadlines", <<>>, 0))
          ELSE IF Truthy(response)
          THEN sent' = SendMessage(sent, i, inv[i].remoteJid, Body("raw", response, 0))
          ELSE sent' = SendMessage(sent, i, inv[i].remoteJid,
                                   Body("FailedToGenerateScript", <<>>, 0))
  /\ UNCHANGED <<now, currentHeadlines, apiCalls, chunkVars, parseVars>>

\* callPerplexityAPI returns to processHeadlineSelection (lines 1388-1400)
ScriptReturn ==
  /\ \E i \in 1..Len(inv), response \in ScriptResponses :
       /\ inv[i].type = "number"
       /\ inv[i].pc = "api"
       /\ inv' = [inv EXCEPT ![i].pc = "send", ![i].response = response]
       /\ IF Truthy(response)
          THEN sent' = SendMessage(sent, i, inv[i].remoteJid, Body("raw", response, 0))
          ELSE sent' = SendMessage(sent, i, inv[i].remoteJid,
                                   Body("FailedToGenerateScript", <<>>, 0))
  /\ UNCHANGED <<now, currentHeadlines, apiCalls, chunkVars, parseVars>>

\* sock.sendMessage resolves
SendDone ==
  /\ \E i \in 1..Len(inv) :
       /\ inv[i].pc \in {"send", "catchSend"}
       /\ sent' = [sent EXCEPT ![PendingSend(i)].result = "ok"]
       /\ inv' = [inv EXCEPT ![i].pc = "done"]
  /\ UNCHANGED <<now, currentHeadlines, apiCalls, chunkVars, parseVars>>

\* sock.sendMessage rejects inside the try block: the catch block sends the
\* error text (lines 1321-1326 and 1401-1406)
SendFails ==
  /\ \E i \in 1..Len(inv) :
       /\ inv[i].pc = "send"
       /\ inv' = [inv EXCEPT ![i].pc = "catchSend"]
       /\ sent' = SendMessage([sent EXCEPT ![PendingSend(i)].result = "failed"],
                              i, inv[i].remoteJid,
                              Body(IF inv[i].type = "agenda" THEN "ErrorFetchingHeadlines"
                                   ELSE "ErrorGeneratingScript", <<>>, 0))
  /\ UNCHANGED <<now, currentHeadlines, apiCalls, chunkVars, parseVars>>

\* sock.sendMessage rejects inside the catch block: the error leaves the
\* function and is logged by handleCommand (lines 400-402)
CatchSendFails ==
  /\ \E i \in 1..Len(inv) :
       /\ inv[i].pc = "catchSend"
       /\ sent' = [sent EXCEPT ![PendingSend(i)].result = "failed"]
       /\ inv' = [inv EXCEPT ![i].pc = "done", ![i].escaped = TRUE]
  /\ UNCHANGED <<now, currentHeadlines, apiCalls, chunkVars, parseVars>>

Next ==
  \/ Tick
  \/ ReceiveMessage
  \/ HeadlinesReturn
  \/ ScriptReturn
  \/ SendDone
  \/ SendFails
  \/ CatchSendFails

Spec == Init /\ [][Next]_vars

(*************************** classifier claims ****************************)
FirstColon(t) ==
  LET colons == {i \in 1..Len(t) : t[i] = COLON}
  IN IF colons = {} THEN 0 ELSE SetMin(colons)

\* 'voice', whitespace, a NAME without colon, optional whitespace, ':' and
\* a content
IsVoiceNameForm(t) ==
  /\ Len(t) >= 5
  /\ t[1].k = "voice"
  /\ IsWS(t[2])
  /\ FirstColon(t) >= 4
  /\ FirstColon(t) < Len(t)
  /\ \E i \in 3..(FirstColon(t) - 1) : ~IsWS(t[i])

\* C5: the voice command with a name is tried before the plain one, so a
\* text that both patterns match is a voice_person command; and a trimmed
\* text 'voice' NAME ':' content, the keyword in any case, is classified
\* VoicePerson with the trimmed NAME and the trimmed content, never Voice.
C5_VoicePersonFirst ==
  ppc = "done" =>
    LET t == Trim(messageText)
    IN /\ VoicePersonMatch(t) # NoCapture => cmd.type = "voice_person"
       /\ IsVoiceNameForm(t) =>
            cmd = Command("voice_person",
                          Trim(SubSeq(t, FirstColon(t) + 1, Len(t))),
                          Trim(SubSeq(t, 3, FirstColon(t) - 1)), 0)

\* C5 witness: "VOICE name : content" with spaces around the name and the
\* content has been classified
C5_Witness ==
  /\ ppc = "done"
  /\ IsVoiceNameForm(Trim(messageText))
  /\ messageText[1] = KW("voice", 1)
  /\ IsWS(messageText[FirstColon(messageText) - 1])
  /\ cmd.type = "voice_person"
  /\ cmd.voiceName # <<>>

\* C6: a string of digits is a HeadlineSelect whose index is its integer
\* value exactly when that value is in 1..10, and no command otherwise.
C6_DigitsInRange ==
  (ppc = "done" /\ NumberMatch(messageText)) =>
    IF parseInt(messageText) \in 1..10
    THEN cmd = Command("number", <<>>, <<>>, parseInt(messageText))
    ELSE cmd = NullCommand

\* C6 witness: "10" classified as the selection of headline 10
C6_Witness ==
  /\ ppc = "done"
  /\ messageText = <<D(1), D(0)>>
  /\ cmd.type = "number"
  /\ cmd.number = 10

(************************ agenda and selection claims *********************)
SendsOf(i) == SelectSeq(sent, LAMBDA e : e.inv = i)

CallsOf(i) == SelectSeq(apiCalls, LAMBDA e : e.inv = i)

\* a session exists and is not older than one hour at time t
SessionUsable(session, t) == session.present /\ t - session.timestamp <= 3600000

\* the selection of invocation i failed validation
ValidationFailed(i) ==
  \/ ~SessionUsable(inv[i].userHeadlines, inv[i].at)
  \/ inv[i].number > Len(inv[i].userHeadlines.headlines)

\* the text that answers a failed validation
ValidationReply(i) ==
  IF ~SessionUsable(inv[i].userHeadlines, inv[i].at)
  THEN Body("NoRecentHeadlines", <<>>, 0)
  ELSE Body("InvalidNumber", <<>>, Len(inv[i].userHeadlines.headlines))

\* the lines "1. h1" ... "10. h10" of TenHeadlines, written out
TenLines ==
  [k \in 1..10 |->
     (IF k = 10 THEN <<D(1), D(0)>> ELSE <<D(k)>>) \o <<DOT, SP, W(100 + k)>>]

\* the numbered lines of ThreeHeadlines, written out
ThreeLines ==
  << <<D(1), DOT, SP, W(201)>>, <<D(2), DOT, W(202)>>,
     <<D(3), DOT, SP, SP, W(203), SP>> >>

ExpectedLines(response) ==
  IF response = TenHeadlines THEN TenLines ELSE ThreeLines

\* a step in which a message starts a headline selection
SelectionStarts ==
  /\ Len(inv') = Len(inv) + 1
  /\ inv'[Len(inv')].type = "number"

\* ... and is answered at once with the instructional message
SelectionRejected ==
  /\ Len(sent') = Len(sent) + 1
  /\ sent'[Len(sent')].inv = Len(inv')
  /\ sent'[Len(sent')].body = Body("NoRecentHeadlines", <<>>, 0)
  /\ apiCalls' = apiCalls

\* C7: a HeadlineSelect passes the session check exactly when the channel
\* has a session and now - createdAt is at most one hour (59 minutes and
\* exactly one hour pass, one hour and 1 ms and 65 minutes do not).
C7_SessionCheck ==
  [][SelectionStarts =>
       (SelectionRejected <=>
          ~SessionUsable(currentHeadlines[inv'[Len(inv')].remoteJid], now))]_vars

\* C7 witness: a selection made exactly one hour after the agenda was
\* stored went on to the script request
C7_Witness ==
  \E i \in 1..Len(inv) :
    /\ inv[i].type = "number"
    /\ inv[i].userHeadlines.present
    /\ inv[i].at - inv[i].userHeadlines.timestamp = 3600000
    /\ Len(CallsOf(i)) = 1

\* C8 as stated: a selection that fails validation issues no text request
\* and sends exactly one failure text, to the requesting channel.
C8_Original ==
  \A i \in 1..Len(inv) :
    (inv[i].type = "number" /\ ValidationFailed(i) /\ inv[i].pc = "done") =>
      /\ CallsOf(i) = <<>>
      /\ Len(SendsOf(i)) = 1
      /\ SendsOf(i)[1].remoteJid = inv[i].remoteJid
      /\ SendsOf(i)[1].body = ValidationReply(i)

\* C8 amended: a selection that fails validation issues no text request and
\* sends the failure text (instructional or bounds error) to the requesting
\* channel; this is its only message unless that send is rejected, and then
\* the generic error text is sent once to the same channel.
C8_ValidationFailure ==
  \A i \in 1..Len(inv) :
    (inv[i].type = "number" /\ ValidationFailed(i)) =>
      /\ CallsOf(i) = <<>>
      /\ Len(SendsOf(i)) \in {1, 2}
      /\ SendsOf(i)[1].remoteJid = inv[i].remoteJid
      /\ SendsOf(i)[1].body = ValidationReply(i)
      /\ Len(SendsOf(i)) = 2 =>
           /\ SendsOf(i)[1].result = "failed"
           /\ SendsOf(i)[2].remoteJid = inv[i].remoteJid
           /\ SendsOf(i)[2].body = Body("ErrorGeneratingScript", <<>>, 0)
      /\ SendsOf(i)[1].result = "ok" => Len(SendsOf(i)) = 1

\* C8 witness: a selection on a session older than one hour whose
\* instructional message was rejected by the transport, so that the error
\* text followed
C8_Witness ==
  \E i \in 1..Len(inv) :
    /\ inv[i].type = "number"
    /\ inv[i].pc = "done"
    /\ inv[i].userHeadlines.present
    /\ inv[i].at - inv[i].userHeadlines.timestamp > 3600000
    /\ Len(SendsOf(i)) = 2

\* a step in which the headlines request of an agenda returns a text
AgendaFulfilled(i) ==
  /\ i \in 1..Len(inv)
  /\ inv[i].type = "agenda"
  /\ inv[i].pc = "api"
  /\ inv'[i].pc = "send"
  /\ Truthy(inv'[i].response)

\* a selection of headline k on a session holding the ten lines
SelectsAmongTen(i) ==
  /\ inv[i].type = "number"
  /\ inv[i].userHeadlines.present
  /\ inv[i].userHeadlines.headlines = TenLines
  /\ inv[i].at - inv[i].userHeadlines.timestamp <= 3600000

\* C9: after an agenda answered with the ten numbered lines the store holds
\* those ten lines in order for the channel; a later selection of k within
\* the hour makes exactly one text request, for headline k without its
\* "k." prefix, and the result is sent as it is to the same chat.
C9_AgendaThenSelect ==
  /\ [][\A i \in 1..Len(inv) :
          (AgendaFulfilled(i) /\ inv'[i].response = TenHeadlines) =>
            currentHeadlines'[inv[i].remoteJid].headlines = TenLines]_vars
  /\ [](\A i \in 1..Len(inv) :
          SelectsAmongTen(i) =>
            /\ Len(CallsOf(i)) = 1
            /\ CallsOf(i)[1].api = "perplexity"
            /\ CallsOf(i)[1].text = <<W(100 + inv[i].number)>>
            /\ Truthy(inv[i].response) =>
                 /\ SendsOf(i)[1].remoteJid = inv[i].remoteJid
                 /\ SendsOf(i)[1].body = Body("raw", inv[i].response, 0))

\* C9 witness: headline 3 of the ten was selected 59 minutes after the
\* agenda and the generated script was sent
C9_Witness ==
  \E i \in 1..Len(inv) :
    /\ SelectsAmongTen(i)
    /\ inv[i].number = 3
    /\ inv[i].at - inv[i].userHeadlines.timestamp = 3540000
    /\ inv[i].pc = "done"
    /\ Truthy(inv[i].response)
    /\ Len(SendsOf(i)) = 1

\* C10: the entry of a channel changes only when an agenda of that channel
\* is fulfilled, and then it becomes the list parsed from that response with
\* the current time, whatever was stored before; an agenda whose request
\* fails writes nothing.
C10_StoreOverwritten ==
  [][\A c \in Channels :
       IF \E i \in 1..Len(inv) : AgendaFulfilled(i) /\ inv[i].remoteJid = c
       THEN \E i \in 1..Len(inv) :
              /\ AgendaFulfilled(i)
              /\ inv[i].remoteJid = c
              /\ currentHeadlines'[c] =
                   [present |-> TRUE, headlines |-> ExpectedLines(inv'[i].response),
                    timestamp |-> now]
       ELSE currentHeadlines'[c] = currentHeadlines[c]]_vars

\* C10 witness: two agendas of one channel were fulfilled with different
\* lists and the channel holds the list of the first message, whose
\* request returned after the other one had been stored
C10_Witness ==
  /\ Len(inv) = 2
  /\ inv[1].type = "agenda" /\ inv[2].type = "agenda"
  /\ inv[1].remoteJid = inv[2].remoteJid
  /\ inv[1].response = TenHeadlines
  /\ inv[2].response = ThreeHeadlines
  /\ currentHeadlines[inv[1].remoteJid].headlines = TenLines
  /\ currentHeadlines[inv[1].remoteJid].timestamp = 3540000

(********************* generated text and its chunks **********************)
\* the heading of the generated text: n = 1 with the memo sign and the
\* stars, n = 2 with the stars, n = 3 the bare words "Vision Point Script"
VPS(n) == [k |-> "vps", n |-> n]

\* "---"
RULE == [k |-> "rule", n |-> 3]

\* the name of a voice; uc = 1 when some of its letters are upper case
Name(word, uc) == [k |-> word, n |-> uc]

\* the first count characters of the text s, from its first token on; a
\* token that is cut keeps its kind when it is a run and becomes ordinary
\* characters otherwise
RECURSIVE Substring(_, _)
Substring(s, count) ==
  IF s = <<>> \/ count <= 0 THEN <<>>
  ELSE IF TokLen(Head(s)) <= count
  THEN <<Head(s)>> \o Substring(Tail(s), count - TokLen(Head(s)))
  ELSE IF Head(s).k = "s" THEN <<SPN(count)>>
  ELSE <<W(count)>>

\* the index of the first heading that pattern number p matches, 0 if none
\* (lines 685-693): the patterns are tried from the most to the least
\* decorated, each on the whole response
HeadingAt(response, p) ==
  LET at == {i \in 1..Len(response) : response[i] = VPS(p)}
  IN IF at = {} THEN 0 ELSE SetMin(at)

\* ([\s\S]*?)(?:---|$) from index from: up to the first "---" or the end
LazyUntilRule(response, from) ==
  LET rules == {i \in from..Len(response) : response[i] = RULE}
  IN IF rules = {} THEN SubSeq(response, from, Len(response))
     ELSE SubSeq(response, from, SetMin(rules) - 1)

\* scriptMatch[1] (lines 685-698)
ScriptMatch(response) ==
  IF HeadingAt(response, 1) > 0
  THEN LazyUntilRule(response, HeadingAt(response, 1) + 1)
  ELSE IF HeadingAt(response, 2) > 0
  THEN LazyUntilRule(response, HeadingAt(response, 2) + 1)
  ELSE IF HeadingAt(response, 3) > 0
  THEN LazyUntilRule(response, HeadingAt(response, 3) + 1)
  ELSE response

\* ^ under the m flag
LineStart(s, p) == p = 1 \/ s[p - 1] = NL

\* script.replace(/^\s*---\s*/gm, '') from index p on
RECURSIVE StripRulesFrom(_, _)
StripRulesFrom(s, p) ==
  IF p > Len(s) THEN <<>>
  ELSE IF /\ LineStart(s, p)
          /\ SkipWS(s, p) <= Len(s)
          /\ s[SkipWS(s, p)] = RULE
  THEN StripRulesFrom(s, SkipWS(s, SkipWS(s, p) + 1))
  ELSE <<s[p]>> \o StripRulesFrom(s, p + 1)

\* extractScriptAndVisuals(response).script (lines 680-723)
extractScriptAndVisuals(response) ==
  LET script0 == Trim(ScriptMatch(response))
  IN IF script0 = <<>> THEN <<>> ELSE Trim(StripRulesFrom(script0, 1))

\* the ends of the separators of text.split(/(?<=[۔!?])\s+/): p is the
\* first character of a run of whitespace that follows a terminator
SentenceGapEnd(text, p) == SkipWS(text, p) - 1

RECURSIVE SplitAfterTerminatorsFrom(_, _)
SplitAfterTerminatorsFrom(text, from) ==
  LET gaps == {p \in (from + 1)..Len(text) : IsWS(text[p]) /\ text[p - 1] = TERM}
  IN IF gaps = {} THEN <<SubSeq(text, from, Len(text))>>
     ELSE <<SubSeq(text, from, SetMin(gaps) - 1)>>
          \o SplitAfterTerminatorsFrom(text, SentenceGapEnd(text, SetMin(gaps)) + 1)

\* text.split(/(?<=[۔!?])\s+/)
SplitAfterTerminators(text) == SplitAfterTerminatorsFrom(text, 1)

\* the loop of chunkText (lines 1511-1519) from sentence idx on;
\* st = [chunks, currentChunk]
RECURSIVE ChunkTextLoop(_, _, _, _)
ChunkTextLoop(sentences, idx, maxSize, st) ==
  IF idx > Len(sentences) THEN st
  ELSE LET sentence == sentences[idx]
           pushed == IF /\ TextLen(st.currentChunk) + TextLen(sentence) > maxSize
                        /\ st.currentChunk # <<>>
                     THEN [chunks |-> Append(st.chunks, Trim(st.currentChunk)),
                           currentChunk |-> <<>>]
                     ELSE st
       IN ChunkTextLoop(sentences, idx + 1, maxSize,
                        [pushed EXCEPT !.currentChunk = @ \o sentence \o <<SP>>])

\* chunkText(text, maxSize) (lines 1505-1526)
chunkText(text, maxSize) ==
  LET st == ChunkTextLoop(SplitAfterTerminators(text), 1, maxSize,
                          [chunks |-> <<>>, currentChunk |-> <<>>])
      all == IF Trim(st.currentChunk) # <<>>
             THEN Append(st.chunks, Trim(st.currentChunk))
             ELSE st.chunks
  IN IF Len(all) > 0 THEN all ELSE <<text>>

\* lines 1416-1417: originalTopic.substring(0, 50) and '...' when cut
ShortTopic(originalTopic) ==
  [text |-> Substring(originalTopic, 50), cut |-> TextLen(originalTopic) > 50]

(************** editorial, script, visuals and voice paths ****************)
\* groupJIDs: the Content group is the channel "content" of Channels
groupJIDs == [content |-> "content", demoScript |-> "demoScript",
              demoVisual |-> "demoVisual"]

\* chunkText(script, 3500) at line 1423
distributionMaxSize == 3500

\* the limit of one speech request (lines 958-959)
ttsCharLimit == 5000

TextToConvertWhole(text) == text

\* textToConvert (lines 957-961)
TextToConvert(text) ==
  IF TextLen(text) > ttsCharLimit THEN Substring(text, ttsCharLimit) ELSE text

ELEVENLABS_VOICE_ID == "ELEVENLABS_VOICE_ID"

\* the ids of the Female anchor and of Faisal in voiceMappings, and an id
\* found by the search of the voices of the account
FemaleAnchorId == "1t3sfuW00ixjYR0WrUwv"
FaisalId == "yMh3XlxlKciyQtb9aaKf"
SearchedVoiceId == "voice_id"

VoiceNames == {"faisal", "zara"}

\* voiceName.toLowerCase()
ToLowerCase(s) ==
  [j \in 1..Len(s) |->
     IF s[j].k \in VoiceNames \cup Keywords THEN [s[j] EXCEPT !.n = 0] ELSE s[j]]

\* voiceMappings[normalizedVoiceName]: of the five names of the table the
\* model has 'faisal'; "" is undefined
voiceMappings(normalizedVoiceName) ==
  IF normalizedVoiceName = <<Name("faisal", 0)>> THEN FaisalId ELSE ""

\* what the search of the voices can give (lines 1476-1499): a voice whose
\* name includes the name asked for, no such voice, or an error
VoicesResults == {"found", "none", "error"}

\* the id getVoiceId returns after the search
SearchedVoice(result) == IF result = "found" THEN SearchedVoiceId ELSE FemaleAnchorId

\* the guidance text that transcribeAudio returns (lines 265-273)
Transcript == <<W(30), NL, NL, W(60), NL, NL, W(50), NL, W(20), NL, NL, W(35)>>

\* the running invocation of handleIncomingMessages for message messageId:
\* type is the command type, "editorial" for a text that is no command,
\* "audio" for a voice message and "ignored" for a message that is dropped;
\* content is the text handed to the path function.  The locals are the
\* response of the text service, the chunks being sent or synthesized, the
\* index k of the current chunk, voiceId and audioChunkPaths (a file is
\* written down as the audio it holds).  pc is the await it is suspended at:
\*   "download"    downloadMediaMessage
\*   "api"         the text service
\*   "heading", "chunk", "pace", "react"    sendToWhatsAppGroups and the reaction
\*   "voices"      the search of the voices
\*   "single", "tts", "delay"               the speech requests and the pause
\*   "reply", "catchReply"                  sock.sendMessage in try and in catch
\*   "done"        returned
Job(type, remoteJid, messageId, content, pc) ==
  [type |-> type, remoteJid |-> remoteJid, messageId |-> messageId,
   content |-> content, pc |-> pc, response |-> Null, escaped |-> FALSE,
   chunks |-> <<>>, k |-> 0, voiceName |-> <<>>, voiceId |-> "",
   audioChunkPaths |-> <<>>]

\* a request to an external service made by invocation i, and its outcome
Request(i, api, number, text, voiceId) ==
  [inv |-> i, api |-> api, number |-> number, text |-> text,
   voiceId |-> voiceId, result |-> "pending"]

\* the request invocation i is awaiting
PendingRequest(i) == SetMax({j \in 1..Len(apiCalls) : apiCalls[j].inv = i})

\* the audio the speech service returns for a text and a voice
Speech(text, voiceId) == [speech |-> text, voiceId |-> voiceId]

combineAudioChunksFirstOnly(audioChunkPaths) ==
  IF audioChunkPaths = <<>> THEN <<>> ELSE <<audioChunkPaths[1]>>

\* Buffer.concat(audioBuffers) of the chunk files, in the order of the
\* paths (lines 1033-1042)
combineAudioChunks(audioChunkPaths) == audioChunkPaths

\* { text: heading } (lines 1416-1420)
Heading(originalTopic) ==
  [msg |-> "Heading", text |-> ShortTopic(originalTopic).text, n |-> 0,
   ellipsis |-> ShortTopic(originalTopic).cut]

\* { react: { text: check mark, key: { id, remoteJid } } } (lines 601-603)
React(messageId) ==
  [msg |-> "react", text |-> <<>>, n |-> 0,
   key |-> [id |-> messageId, remoteJid |-> groupJIDs.content]]

\* { audio, mimetype: 'audio/mpeg', ptt } (lines 510-514 and 555-559)
Audio(audio, ptt) == [msg |-> "audio", text |-> <<>>, n |-> 0, audio |-> audio, ptt |-> ptt]

\* the record of invocation i becomes job; i is a new invocation when it
\* is one more than the number of invocations
Put(i, job) == IF i > Len(inv) THEN Append(inv, job) ELSE [inv EXCEPT ![i] = job]

EditorialTypes == {"topic", "editorial", "audio"}

\* the functions that are running when invocation of this type is in its
\* path function, innermost first
CallStack(type) ==
  IF type = "editorial" THEN <<"processEditorial", "handleIncomingMessages">>
  ELSE IF type = "audio"
  THEN <<"processEditorial", "handleVoiceMessage", "handleIncomingMessages">>
  ELSE <<"path", "handleCommand", "handleIncomingMessages">>

HasNoTryCatch(f) == FALSE

\* the functions whose body is a try block with a catch that only logs:
\* handleCommand (lines 359-402), handleVoiceMessage (201-244) and
\* handleIncomingMessages (136-194)
HasTryCatch(f) == f \in {"handleCommand", "handleVoiceMessage", "handleIncomingMessages"}

\* where an exception thrown out of the innermost function of the stack is
\* caught: the first caller with a try block, or the transport that emitted
\* the event
RECURSIVE CaughtBy(_)
CaughtBy(callers) ==
  IF callers = <<>> THEN "transport"
  ELSE IF HasTryCatch(Head(callers)) THEN Head(callers)
  ELSE CaughtBy(Tail(callers))

\* processEditorial up to the request of line 583
StartEditorial(i, type, remoteJid, editorial) ==
  /\ inv' = Put(i, Job(type, remoteJid, i, editorial, "api"))
  /\ apiCalls' = Append(apiCalls, Request(i, "perplexity", 0, editorial, ""))
  /\ UNCHANGED <<sent, currentHeadlines>>

\* processScriptOnly (lines 408-442) and processVisualsOnly (467-473) up to
\* the request
StartTextRequest(i, type, remoteJid, content) ==
  /\ inv' = Put(i, Job(type, remoteJid, i, content, "api"))
  /\ apiCalls' = Append(apiCalls,
                        Request(i, IF type = "script" THEN "perplexity" ELSE "visuals",
                                0, content, ""))
  /\ UNCHANGED <<sent, currentHeadlines>>

ReplyToContentGroup(job) == groupJIDs.content

\* the chat a path function replies to: remoteJid, the chat of the message
\* (lines 446, 480, 510, 555)
ReplyTo(job) == job.remoteJid

ReplyNeverSent(i, job, audioPath) ==
  /\ inv' = Put(i, [job EXCEPT !.pc = "synthesized"])
  /\ UNCHANGED sent

\* processVoiceOnly and processVoiceWithPerson once generateAudio or
\* generateAudioWithVoice has returned audioPath, "" for null (lines
\* 508-521 and 552-566)
ReplyWithAudio(i, job, audioPath) ==
  /\ inv' = Put(i, [job EXCEPT !.pc = "reply"])
  /\ sent' = SendMessage(sent, i, ReplyTo(job),
                         IF audioPath # <<>>
                         THEN Audio(audioPath, job.type = "voice_person")
                         ELSE Body("FailedToGenerateVoice", <<>>, 0))

\* generateAudio and generateAudioWithVoice up to the first speech request
\* (lines 889-911 and 1057-1079); job has its voiceId and log is the list
\* of the requests made so far
BeginSynthesis(i, job, log) ==
  LET chunks_ == IF job.content = <<>> THEN <<>> ELSE splitScriptIntoChunks(job.content)
  IN IF chunks_ = <<>>
     THEN /\ ReplyWithAudio(i, job, <<>>)
          /\ apiCalls' = log
     ELSE /\ inv' = Put(i, [job EXCEPT
                              !.chunks = chunks_, !.k = 1,
                              !.pc = IF Len(chunks_) = 1 /\ TextLen(chunks_[1]) <= ttsCharLimit
                                     THEN "single" ELSE "tts"])
          /\ apiCalls' = Append(log,
                                Request(i, "elevenlabs",
                                        IF Len(chunks_) = 1 /\ TextLen(chunks_[1]) <= ttsCharLimit
                                        THEN 0 ELSE 1,
                                        TextToConvert(chunks_[1]), job.voiceId))
          /\ UNCHANGED sent

\* processVoiceWithPerson up to its first request (lines 533-550): a name
\* of voiceMappings goes on to the speech requests, any other name is
\* searched for.  getVoiceId returns an id on every path, so that the
\* branch of lines 540-547 is never taken.
StartVoiceWithPerson(i, remoteJid, content, voiceName) ==
  LET normalizedVoiceName == ToLowerCase(Trim(voiceName))
      job == [Job("voice_person", remoteJid, i, content, "voices")
                EXCEPT !.voiceName = voiceName]
  IN /\ IF voiceMappings(normalizedVoiceName) # ""
        THEN BeginSynthesis(i, [job EXCEPT !.voiceId = voiceMappings(normalizedVoiceName)],
                            apiCalls)
        ELSE /\ inv' = Put(i, job)
             /\ apiCalls' = Append(apiCalls, Request(i, "voices", 0, normalizedVoiceName, ""))
             /\ UNCHANGED sent
     /\ UNCHANGED currentHeadlines

\* handleCommand (lines 358-403) up to the first await of the path function
HandleCommand(i, commandResult, remoteJid) ==
  IF commandResult.type = "topic"
  THEN StartEditorial(i, "topic", remoteJid, commandResult.content)
  ELSE IF commandResult.type \in {"script", "visuals"}
  THEN StartTextRequest(i, commandResult.type, remoteJid, commandResult.content)
  ELSE IF commandResult.type = "voice"
  THEN /\ BeginSynthesis(i, [Job("voice", remoteJid, i, commandResult.content, "single")
                               EXCEPT !.voiceId = ELEVENLABS_VOICE_ID], apiCalls)
       /\ UNCHANGED currentHeadlines
  ELSE IF commandResult.type = "voice_person"
  THEN StartVoiceWithPerson(i, remoteJid, commandResult.content, commandResult.voiceName)
  ELSE IF commandResult.type = "agenda"
  THEN StartAgenda(i, remoteJid)
  ELSE StartHeadlineSelection(i, commandResult.number, remoteJid)

\* message.message?.conversation || message.message?.extendedTextMessage?.text
\* of a message that has no text
NoText == <<[k |-> "undefined", n |-> 0]>>

\* an event of 'messages.upsert': m.messages[0] (lines 137-144)
InboundEvent(fromMe, messageText_, audioMessage) ==
  [fromMe |-> fromMe, messageText |-> messageText_, audioMessage |-> audioMessage]

IgnoreFallsThrough(i, type, remoteJid, messageText_) ==
  StartEditorial(i, "editorial", remoteJid, messageText_)

\* the message is dropped: type is "fromMe" at line 138 and "ignored" at
\* lines 186-190
Ignore(i, type, remoteJid, messageText_) ==
  /\ inv' = Put(i, Job(type, remoteJid, i, messageText_, "done"))
  /\ UNCHANGED <<apiCalls, sent, currentHeadlines>>

FromAnyChat(remoteJid) == TRUE

\* message.key.remoteJid === groupJIDs.content (lines 155 and 178)
FromContentGroup(remoteJid) == remoteJid = groupJIDs.content

\* handleIncomingMessages (lines 135-195) for message i of the chat
\* remoteJid, up to the first await
HandleIncomingMessage(i, remoteJid, message) ==
  IF message.fromMe
  THEN Ignore(i, "fromMe", remoteJid, message.messageText)
  ELSE IF message.audioMessage /\ FromContentGroup(remoteJid)
  THEN /\ inv' = Put(i, Job("audio", remoteJid, i, <<>>, "download"))
       /\ UNCHANGED <<apiCalls, sent, currentHeadlines>>
  ELSE IF message.messageText # NoText /\ Trim(message.messageText) # <<>>
  THEN LET commandResult == parseCommand(message.messageText)
       IN IF commandResult # NullCommand
          THEN HandleCommand(i, commandResult, remoteJid)
          ELSE IF FromContentGroup(remoteJid)
          THEN StartEditorial(i, "editorial", remoteJid, message.messageText)
          ELSE Ignore(i, "ignored", remoteJid, message.messageText)
  ELSE Ignore(i, "ignored", remoteJid, message.messageText)

\* the request invocation i is awaiting has returned
Returned(i, ok) ==
  [apiCalls EXCEPT ![PendingRequest(i)].result = IF ok THEN "ok" ELSE "failed"]

\* the call of sock.sendMessage invocation i is awaiting has resolved
Resolved(i) == [sent EXCEPT ![PendingSend(i)].result = "ok"]

\* ... has rejected
Rejected(i) == [sent EXCEPT ![PendingSend(i)].result = "failed"]

\* what downloadMediaMessage can give: the audio, nothing, or an error
DownloadResults == {"buffer", "empty", "error"}

\* downloadMediaMessage returns to handleVoiceMessage (lines 205-234): the
\* audio is saved and transcribeAudio gives its guidance text, which goes
\* to processEditorial
DownloadReturn ==
  /\ \E i \in 1..Len(inv), result \in DownloadResults :
       /\ inv[i].pc = "download"
       /\ IF result = "buffer"
          THEN /\ inv' = [inv EXCEPT ![i].pc = "api", ![i].content = Transcript]
               /\ apiCalls' = Append(apiCalls, Request(i, "perplexity", 0, Transcript, ""))
          ELSE /\ inv' = [inv EXCEPT ![i].pc = "done"]
               /\ UNCHANGED apiCalls
  /\ UNCHANGED <<now, currentHeadlines, sent, chunkVars, parseVars>>

\* what callPerplexityAPI and callVisualsAPI can return: null, the empty
\* text, blank text, a script of 4000 characters in one sentence, in two
\* sentences and in three sentences, a text with the heading and a rule
\* around the script, a heading with nothing under it, and rules only
TextResponses ==
  {Null, <<>>, <<SP, NL>>,
   <<W(4000)>>,
   <<W(1999), TERM, SP, W(1999)>>,
   <<W(99), TERM, SP, W(3449), TERM, SP, W(448)>>,
   <<W(20), NL, VPS(2), NL, W(300), TERM, NL, NL, W(200), NL, RULE, NL, W(40)>>,
   <<VPS(3), SP, RULE, W(40)>>,
   <<RULE, NL, RULE>>}

EditorialAbortsOnFailureOnly(response, script_) == ~Truthy(response)

\* processEditorial returns without sending: no response (line 584) or no
\* script (line 592)
EditorialAborts(response, script_) == ~Truthy(response) \/ script_ = <<>>

\* the text service returns to processScriptOnly (lines 442-455), to
\* processVisualsOnly (473-490) or to processEditorial (583-598 with
\* sendToWhatsAppGroups up to the heading, lines 1412-1420)
TextReturn ==
  /\ \E i \in 1..Len(inv), response \in TextResponses :
       LET job == [inv[i] EXCEPT !.response = response]
           script_ == extractScriptAndVisuals(response)
       IN /\ inv[i].type \in EditorialTypes \cup {"script", "visuals"}
          /\ inv[i].pc = "api"
          /\ apiCalls' = Returned(i, response # Null)
          /\ IF inv[i].type = "script"
             THEN /\ inv' = Put(i, [job EXCEPT !.pc = "reply"])
                  /\ sent' = SendMessage(sent, i, ReplyTo(job),
                                         IF Truthy(response)
                                         THEN Body("GeneratedScript", response, 0)
                                         ELSE Body("FailedToGenerateScript", <<>>, 0))
             ELSE IF inv[i].type = "visuals"
             THEN /\ inv' = Put(i, [job EXCEPT !.pc = "reply"])
                  /\ sent' = SendMessage(sent, i, ReplyTo(job),
                                         IF Truthy(response)
                                         THEN Body("raw", response, 0)
                                         ELSE Body("FailedToGenerateVisuals", <<>>, 0))
             ELSE IF EditorialAborts(response, script_)
             THEN /\ inv' = Put(i, [job EXCEPT !.pc = "done"])
                  /\ UNCHANGED sent
             ELSE /\ inv' = Put(i, [job EXCEPT !.pc = "heading",
                                               !.chunks = chunkText(script_, distributionMaxSize)])
                  /\ sent' = SendMessage(sent, i, groupJIDs.demoScript, Heading(job.content))
  /\ UNCHANGED <<now, currentHeadlines, chunkVars, parseVars>>

ChunkToSendFromTheEnd(chunks_, k) == chunks_[Len(chunks_) + 1 - k]

\* the k-th chunk of for (const chunk of chunks) (line 1424)
ChunkToSend(chunks_, k) == chunks_[k]

\* sock.sendMessage resolves in sendToWhatsAppGroups (lines 1420-1427), for
\* the reaction (601-605) or for a reply (446-450, 452-454, 458-460 and
\* the like)
SendResolves ==
  /\ \E i \in 1..Len(inv) :
       /\ inv[i].pc \in {"heading", "chunk", "react", "reply", "catchReply"}
       /\ IF inv[i].pc = "heading"
          THEN /\ inv' = [inv EXCEPT ![i].pc = "chunk", ![i].k = 1]
               /\ sent' = SendMessage(Resolved(i), i, groupJIDs.demoScript,
                                      Body("raw", ChunkToSend(inv[i].chunks, 1), 0))
          ELSE /\ inv' = [inv EXCEPT ![i].pc = IF inv[i].pc = "chunk" THEN "pace" ELSE "done"]
               /\ sent' = Resolved(i)
  /\ UNCHANGED <<now, currentHeadlines, apiCalls, chunkVars, parseVars>>

\* the pause of one second after a chunk is over (line 1426): the next
\* chunk is sent, or sendToWhatsAppGroups returns and processEditorial
\* sends the reaction (lines 1428-1445 and 601-603)
PaceDone ==
  /\ \E i \in 1..Len(inv) :
       /\ inv[i].pc = "pace"
       /\ IF inv[i].k < Len(inv[i].chunks)
          THEN /\ inv' = [inv EXCEPT ![i].pc = "chunk", ![i].k = @ + 1]
               /\ sent' = SendMessage(sent, i, groupJIDs.demoScript,
                                      Body("raw", ChunkToSend(inv[i].chunks, inv[i].k + 1), 0))
          ELSE /\ inv' = [inv EXCEPT ![i].pc = "react"]
               /\ sent' = SendMessage(sent, i, groupJIDs.content, React(inv[i].messageId))
  /\ UNCHANGED <<now, currentHeadlines, apiCalls, chunkVars, parseVars>>

\* sock.sendMessage rejects in sendToWhatsAppGroups: its catch logs the
\* error (lines 1446-1448) and processEditorial goes on to the reaction
FanOutSendFails ==
  /\ \E i \in 1..Len(inv) :
       /\ inv[i].pc \in {"heading", "chunk"}
       /\ inv' = [inv EXCEPT ![i].pc = "react"]
       /\ sent' = SendMessage(Rejected(i), i, groupJIDs.content, React(inv[i].messageId))
  /\ UNCHANGED <<now, currentHeadlines, apiCalls, chunkVars, parseVars>>

\* sock.sendMessage rejects for the reaction: the catch of processEditorial
\* logs the error (lines 607-609)
ReactFails ==
  /\ \E i \in 1..Len(inv) :
       /\ inv[i].pc = "react"
       /\ inv' = [inv EXCEPT ![i].pc = "done"]
       /\ sent' = Rejected(i)
  /\ UNCHANGED <<now, currentHeadlines, apiCalls, chunkVars, parseVars>>

\* the text of the catch block of the path function (lines 458-460,
\* 493-495, 524-526 and 569-571)
ErrorText(type) ==
  IF type = "script" THEN Body("ErrorGeneratingScript", <<>>, 0)
  ELSE IF type = "visuals" THEN Body("ErrorGeneratingVisuals", <<>>, 0)
  ELSE Body("ErrorGeneratingVoice", <<>>, 0)

\* sock.sendMessage rejects for a reply: the catch block of the path
\* function sends its error text
ReplyFails ==
  /\ \E i \in 1..Len(inv) :
       /\ inv[i].pc = "reply"
       /\ inv' = [inv EXCEPT ![i].pc = "catchReply"]
       /\ sent' = SendMessage(Rejected(i), i, ReplyTo(inv[i]), ErrorText(inv[i].type))
  /\ UNCHANGED <<now, currentHeadlines, apiCalls, chunkVars, parseVars>>

\* sock.sendMessage rejects in the catch block: the error leaves the path
\* function and is logged by handleCommand (lines 400-402)
CatchReplyFails ==
  /\ \E i \in 1..Len(inv) :
       /\ inv[i].pc = "catchReply"
       /\ inv' = [inv EXCEPT ![i].pc = "done", ![i].escaped = TRUE]
       /\ sent' = Rejected(i)
  /\ UNCHANGED <<now, currentHeadlines, apiCalls, chunkVars, parseVars>>

\* the search of the voices returns to getVoiceId (lines 1476-1499), and
\* processVoiceWithPerson goes on to generateAudioWithVoice
VoicesReturn ==
  /\ \E i \in 1..Len(inv), result \in VoicesResults :
       /\ inv[i].pc = "voices"
       /\ BeginSynthesis(i, [inv[i] EXCEPT !.voiceId = SearchedVoice(result)],
                         Returned(i, result # "error"))
  /\ UNCHANGED <<now, currentHeadlines, chunkVars, parseVars>>

NextChunkAgain(k) == k

PauseAfterEveryRequest(k, length) == TRUE

\* i < chunks.length - 1 for the chunk k = i + 1 (lines 920 and 1088)
PauseBetweenRequests(k, length) == k < length

\* i++ of the loops of lines 908 and 1076
NextChunk(k) == k + 1

\* a speech request returns: generateSingleAudioChunk gives the path of the
\* file or null (lines 967-1021); the single request gives its result to
\* the caller (lines 899-902), the loop keeps the path, and pauses when
\* chunks are left or else combines the files (lines 911-943)
TtsReturn ==
  /\ \E i \in 1..Len(inv), ok \in BOOLEAN :
       LET audioChunkPaths_ ==
             IF ok THEN Append(inv[i].audioChunkPaths,
                               Speech(apiCalls[PendingRequest(i)].text, inv[i].voiceId))
             ELSE inv[i].audioChunkPaths
           job == [inv[i] EXCEPT !.audioChunkPaths = audioChunkPaths_]
       IN /\ inv[i].pc \in {"single", "tts"}
          /\ apiCalls' = Returned(i, ok)
          /\ IF inv[i].pc = "tts" /\ PauseBetweenRequests(inv[i].k, Len(inv[i].chunks))
             THEN /\ inv' = Put(i, [job EXCEPT !.pc = "delay"])
                  /\ UNCHANGED sent
             ELSE ReplyWithAudio(i, job, IF inv[i].pc = "single" THEN audioChunkPaths_
                                         ELSE combineAudioChunks(audioChunkPaths_))
  /\ UNCHANGED <<now, currentHeadlines, chunkVars, parseVars>>

\* the pause of one second between two speech requests is over (lines
\* 919-922): the loop goes on with the next chunk, and ends when there is
\* none (lines 908 and 925-943)
DelayDone ==
  /\ \E i \in 1..Len(inv) :
       /\ inv[i].pc = "delay"
       /\ IF NextChunk(inv[i].k) <= Len(inv[i].chunks)
          THEN /\ inv' = [inv EXCEPT ![i].pc = "tts", ![i].k = NextChunk(@)]
               /\ apiCalls' = Append(apiCalls,
                                     Request(i, "elevenlabs", NextChunk(inv[i].k),
                                             TextToConvert(inv[i].chunks[NextChunk(inv[i].k)]),
                                             inv[i].voiceId))
               /\ UNCHANGED sent
          ELSE /\ ReplyWithAudio(i, inv[i], combineAudioChunks(inv[i].audioChunkPaths))
               /\ UNCHANGED apiCalls
  /\ UNCHANGED <<now, currentHeadlines, chunkVars, parseVars>>

(************************ pipeline specification **************************)
\* the number of inbound events
MaxMessages == 1

\* the contents of the voice commands: a short text, two and three
\* paragraphs that are a chunk each, and one paragraph of 6000 characters
VoiceContents ==
  {<<W(600)>>,
   <<W(1100), NL, NL, W(1100)>>,
   <<W(1100), NL, NL, W(1200), NL, NL, W(700)>>,
   <<W(6000)>>}

\* the texts of the inbound messages: the commands, texts that are no
\* command ("11", a sentence) and a blank text
PipelineTexts ==
  {<<KW("topic", 1), COLON, SP, W(70)>>,
   <<KW("script", 0), SP, COLON, W(40)>>,
   <<KW("visuals", 0), COLON, SP, W(40)>>,
   <<KW("agenda", 0)>>, <<D(3)>>, <<D(1), D(1)>>,
   <<SP, W(30), SP, W(10)>>,
   <<SP, NL>>}
  \cup {<<KW("voice", 0), COLON, SP>> \o c : c \in VoiceContents}
  \cup {<<KW("voice", 1), SP, Name("faisal", 1), COLON>> \o c :
          c \in {<<W(600)>>, <<W(1100), NL, NL, W(1100)>>}}
  \cup {<<KW("voice", 0), SP, Name("zara", 0), SP, COLON, W(600)>>}

\* the events: text messages of other users, a voice message, a message
\* with neither, and a text message of the bot's own account
InboundEvents ==
  {InboundEvent(FALSE, t, FALSE) : t \in PipelineTexts}
  \cup {InboundEvent(FALSE, NoText, TRUE), InboundEvent(FALSE, NoText, FALSE),
        InboundEvent(TRUE, <<KW("topic", 1), COLON, SP, W(70)>>, FALSE)}

\* the bot has no headlines, or it has stored the ten headlines for the
\* Content group at time 0 and 59 minutes or more than one hour have passed
PipelineInit ==
  /\ inv = <<>>
  /\ apiCalls = <<>>
  /\ sent = <<>>
  /\ \/ /\ now = 0
        /\ currentHeadlines = [c \in Channels |-> NoSession]
     \/ /\ now \in {3540000, 3600001}
        /\ currentHeadlines =
             StoreHeadlines([c \in Channels |-> NoSession], groupJIDs.content,
                            HeadlineLines(TenHeadlines), 0)
  /\ ChunkIdle
  /\ ParseIdle

\* 'messages.upsert' calls handleIncomingMessages
ReceiveEvent ==
  /\ Len(inv) < MaxMessages
  /\ \E remoteJid \in Channels, message \in InboundEvents :
       HandleIncomingMessage(Len(inv) + 1, remoteJid, message)
  /\ UNCHANGED <<now, chunkVars, parseVars>>

PipelineNext ==
  \/ ReceiveEvent
  \/ DownloadReturn
  \/ TextReturn
  \/ SendResolves
  \/ PaceDone
  \/ FanOutSendFails
  \/ ReactFails
  \/ ReplyFails
  \/ CatchReplyFails
  \/ VoicesReturn
  \/ TtsReturn
  \/ DelayDone
  \/ HeadlinesReturn
  \/ ScriptReturn
  \/ SendDone
  \/ SendFails
  \/ CatchSendFails

PipelineSpec == PipelineInit /\ [][PipelineNext]_vars

(*************************** pipeline claims ******************************)
\* the request of invocation i to the text service has returned
TextReturned(i) ==
  /\ CallsOf(i) # <<>>
  /\ CallsOf(i)[1].result # "pending"

\* C11: in the editorial path (a topic command, a text that is no command
\* in the Content group, a voice message), when the text request fails or
\* the script extracted from the generated text is empty, the invocation
\* ends and nothing is sent to any chat: no heading, no chunk, no failure
\* text and no reaction.
C11_EditorialAbortSilent ==
  \A i \in 1..Len(inv) :
    (/\ inv[i].type \in EditorialTypes
     /\ TextReturned(i)
     /\ \/ CallsOf(i)[1].result = "failed"
        \/ extractScriptAndVisuals(inv[i].response) = <<>>) =>
      /\ SendsOf(i) = <<>>
      /\ inv[i].pc = "done"

\* C11 witness: the topic command "Topic: ..." got a text with the heading
\* and nothing under it, and ended without a message
C11_Witness ==
  \E i \in 1..Len(inv) :
    /\ inv[i].type = "topic"
    /\ inv[i].pc = "done"
    /\ CallsOf(i)[1].result = "ok"
    /\ inv[i].response = <<VPS(3), SP, RULE, W(40)>>
    /\ sent = <<>>

\* the chats and bodies of the messages of invocation i, in the order of
\* the calls of sock.sendMessage
DeliveriesOf(i) ==
  [j \in 1..Len(SendsOf(i)) |->
     [remoteJid |-> SendsOf(i)[j].remoteJid, body |-> SendsOf(i)[j].body]]

\* no call of sock.sendMessage of invocation i was rejected
NoSendRejected(i) == \A j \in 1..Len(SendsOf(i)) : SendsOf(i)[j].result # "failed"

\* every call of sock.sendMessage of invocation i has resolved
AllSendsResolved(i) == \A j \in 1..Len(SendsOf(i)) : SendsOf(i)[j].result = "ok"

\* the chunks of the script of editorial invocation i for the script group
DistributionChunks(i) == chunkText(extractScriptAndVisuals(inv[i].response), 3500)

\* heading, chunks in order and reaction of editorial invocation i
ExpectedFanOut(i) ==
  <<[remoteJid |-> "demoScript", body |-> Heading(inv[i].content)]>>
  \o [k \in 1..Len(DistributionChunks(i)) |->
        [remoteJid |-> "demoScript", body |-> Body("raw", DistributionChunks(i)[k], 0)]]
  \o <<[remoteJid |-> "content", body |-> React(inv[i].messageId)]>>

C13_FourThousandInTwoChunks ==
  \A i \in 1..Len(inv) :
    (/\ inv[i].type \in EditorialTypes
     /\ inv[i].pc = "done"
     /\ SendsOf(i) # <<>>
     /\ AllSendsResolved(i)
     /\ TextLen(extractScriptAndVisuals(inv[i].response)) = 4000) =>
      /\ Len(DistributionChunks(i)) = 2
      /\ Len(SendsOf(i)) = 4
      /\ DeliveriesOf(i) = ExpectedFanOut(i)

VoiceTypes == {"voice", "voice_person"}

\* the speech requests of invocation i, in the order they were made
SpeechCalls(i) == SelectSeq(CallsOf(i), LAMBDA e : e.api = "elevenlabs")

\* generateAudio or generateAudioWithVoice of invocation i has returned
SynthesisOver(i) == inv[i].pc \in {"reply", "catchReply", "done"}

\* the audio of the speech requests of invocation i that succeeded, in the
\* order of the requests
SucceededAudio(i) ==
  LET succeeded == SelectSeq(SpeechCalls(i), LAMBDA e : e.result = "ok")
  IN [j \in 1..Len(succeeded) |-> Speech(succeeded[j].text, succeeded[j].voiceId)]

AudioSends(i) == SelectSeq(SendsOf(i), LAMBDA e : e.body.msg = "audio")

VoiceFailureReplies(i) ==
  SelectSeq(SendsOf(i), LAMBDA e : e.body = Body("FailedToGenerateVoice", <<>>, 0))

InChunkOrder(i) ==
  /\ Len(SpeechCalls(i)) <= Len(inv[i].chunks)
  /\ SynthesisOver(i) => Len(SpeechCalls(i)) = Len(inv[i].chunks)
  /\ \A j \in 1..Len(SpeechCalls(i)) :
       /\ SpeechCalls(i)[j].text = Substring(inv[i].chunks[j], ttsCharLimit)
       /\ j < Len(SpeechCalls(i)) => SpeechCalls(i)[j].result # "pending"

SpeechPending(i) ==
  /\ SpeechCalls(i) # <<>>
  /\ SpeechCalls(i)[Len(SpeechCalls(i))].result = "pending"

\* one step of the speech requests of invocation i: a request after the
\* first is made at the end of a pause, once the request before it has
\* returned; the return of a request is followed by a pause exactly when
\* it is a request of the loop and chunks are left; the single request is
\* the request of one chunk of at most 5000 characters and no pause
\* follows it
PacedStep(i) ==
  /\ (SpeechCalls(i) # <<>> /\ Len(SpeechCalls(i))' = Len(SpeechCalls(i)) + 1) =>
       /\ inv[i].pc = "delay"
       /\ ~SpeechPending(i)
  /\ (SpeechPending(i) /\ ~SpeechPending(i)') =>
       (inv'[i].pc = "delay" <=>
          (inv[i].pc = "tts" /\ Len(SpeechCalls(i)) < Len(inv[i].chunks)))
  /\ (inv[i].pc # "delay" /\ inv'[i].pc = "delay") =>
       (SpeechPending(i) /\ ~SpeechPending(i)')
  /\ inv[i].pc = "single" =>
       /\ Len(inv[i].chunks) = 1
       /\ TextLen(inv[i].chunks[1]) <= ttsCharLimit
       /\ Len(SpeechCalls(i)) = 1
       /\ inv'[i].pc # "delay"

\* C15: the speech requests of a voice job are made one after the other:
\* one request per chunk in chunk order, the next one only after the one
\* before it has returned and a pause has passed, no pause after the last
\* request, and a single request without pause for one chunk of at most
\* 5000 characters.
C15_SequentialSynthesis ==
  /\ [](\A i \in 1..Len(inv) : inv[i].type \in VoiceTypes => InChunkOrder(i))
  /\ [][\A i \in 1..Len(inv) : inv[i].type \in VoiceTypes => PacedStep(i)]_vars

\* C15 witness: the third request of a job of three chunks is waiting for
\* its answer, the first two have returned
C15_Witness ==
  \E i \in 1..Len(inv) :
    /\ inv[i].type \in VoiceTypes
    /\ inv[i].pc = "tts"
    /\ Len(inv[i].chunks) = 3
    /\ Len(SpeechCalls(i)) = 3
    /\ SpeechCalls(i)[2].result = "failed"
    /\ SpeechPending(i)

\* the chunk of invocation i that the speech request e carries: the chunk
\* of its number, the only chunk for the single request
ChunkOf(i, e) == inv[i].chunks[IF e.number = 0 THEN 1 ELSE e.number]

\* C16: the text of every speech request has at most 5000 characters, and
\* is the first 5000 characters of its chunk when the chunk is longer.
C16_SynthesisCeiling ==
  \A j \in 1..Len(apiCalls) :
    apiCalls[j].api = "elevenlabs" =>
      /\ TextLen(apiCalls[j].text) <= 5000
      /\ apiCalls[j].text = Substring(ChunkOf(apiCalls[j].inv, apiCalls[j]), 5000)
      /\ TextLen(ChunkOf(apiCalls[j].inv, apiCalls[j])) <= 5000 =>
           apiCalls[j].text = ChunkOf(apiCalls[j].inv, apiCalls[j])

\* C16 witness: a chunk of 6000 characters was requested as its first 5000
C16_Witness ==
  \E j \in 1..Len(apiCalls) :
    /\ apiCalls[j].api = "elevenlabs"
    /\ TextLen(ChunkOf(apiCalls[j].inv, apiCalls[j])) = 6000
    /\ apiCalls[j].text = <<W(5000)>>

TextGenerationApis == {"perplexity", "visuals", "headlines"}

TextGenerationCalls(i) ==
  SelectSeq(CallsOf(i), LAMBDA e : e.api \in TextGenerationApis)

\* C17: no request is made twice: an editorial, script, visuals, agenda or
\* selection invocation makes at most one text request, and a voice job
\* makes at most one speech request per chunk (and at most one search of
\* the voices), whatever the results.
C17_NoRetry ==
  \A i \in 1..Len(inv) :
    /\ inv[i].type \in EditorialTypes \cup {"script", "visuals", "agenda", "number"} =>
         /\ Len(TextGenerationCalls(i)) <= 1
         /\ CallsOf(i) = TextGenerationCalls(i)
    /\ inv[i].type \in VoiceTypes =>
         /\ TextGenerationCalls(i) = <<>>
         /\ Len(SpeechCalls(i)) <= Len(inv[i].chunks)
         /\ \A j, k \in 1..Len(SpeechCalls(i)) :
              j # k => SpeechCalls(i)[j].number # SpeechCalls(i)[k].number
         /\ Len(SelectSeq(CallsOf(i), LAMBDA e : e.api = "voices")) <= 1

\* C17 witness: both requests of a voice job of two chunks failed; the job
\* made these two requests, sent its failure text and ended
C17_Witness ==
  \E i \in 1..Len(inv) :
    /\ inv[i].type \in VoiceTypes
    /\ inv[i].pc = "done"
    /\ Len(inv[i].chunks) = 2
    /\ Len(SpeechCalls(i)) = 2
    /\ \A j \in 1..2 : SpeechCalls(i)[j].result = "failed"
    /\ VoiceFailureReplies(i) # <<>>

TextRequestTypes == {"script", "visuals"}

\* the first message of a script or visuals invocation: the generated
\* text, behind the label for a script, or the failure text when the text
\* function gave null or an empty text
FirstReply(i) ==
  IF inv[i].type = "script"
  THEN IF Truthy(inv[i].response) THEN Body("GeneratedScript", inv[i].response, 0)
       ELSE Body("FailedToGenerateScript", <<>>, 0)
  ELSE IF Truthy(inv[i].response) THEN Body("raw", inv[i].response, 0)
       ELSE Body("FailedToGenerateVisuals", <<>>, 0)

\* C18 as stated: a script or visuals invocation sends exactly one text, to
\* the chat of the request: the generated text (labelled for a script) when
\* the text request succeeds, a failure text when it fails.
C18_Original ==
  \A i \in 1..Len(inv) :
    (inv[i].type \in TextRequestTypes /\ inv[i].pc = "done") =>
      /\ Len(SendsOf(i)) = 1
      /\ SendsOf(i)[1].remoteJid = inv[i].remoteJid
      /\ SendsOf(i)[1].body = FirstReply(i)

\* C18 amended: a script or visuals invocation whose text request has
\* returned sends the generated text (labelled for a script) when that text
\* is not empty and the failure text otherwise, to the chat of the request;
\* this is its only message unless that send is rejected, and then the
\* error text of its catch block is sent once to the same chat; no message
\* goes to another chat.
C18_ReplyInPlace ==
  \A i \in 1..Len(inv) :
    (inv[i].type \in TextRequestTypes /\ TextReturned(i)) =>
      /\ Len(SendsOf(i)) \in {1, 2}
      /\ \A j \in 1..Len(SendsOf(i)) : SendsOf(i)[j].remoteJid = inv[i].remoteJid
      /\ SendsOf(i)[1].body = FirstReply(i)
      /\ Len(SendsOf(i)) = 2 =>
           /\ SendsOf(i)[1].result = "failed"
           /\ SendsOf(i)[2].body = ErrorText(inv[i].type)
      /\ SendsOf(i)[1].result = "ok" => Len(SendsOf(i)) = 1

\* C18 witness: the generated script of a request made outside the content
\* group was rejected by the transport, and the error text went to the same
\* chat
C18_Witness ==
  \E i \in 1..Len(inv) :
    /\ inv[i].type = "script"
    /\ inv[i].pc = "done"
    /\ inv[i].remoteJid # groupJIDs.content
    /\ Truthy(inv[i].response)
    /\ Len(SendsOf(i)) = 2
    /\ SendsOf(i)[1].result = "failed"
    /\ SendsOf(i)[2].result = "ok"
    /\ SendsOf(i)[2].remoteJid = inv[i].remoteJid

\* the function that catches what invocation i throws out of its
\* innermost function
Catcher(i) == CaughtBy(Tail(CallStack(inv[i].type)))

\* C19: whatever the text requests, speech requests and sends of an
\* invocation do, no exception reaches the transport that emitted the
\* event: the editorial path catches its failures in processEditorial, and
\* what a command path throws out of its catch block is caught by
\* handleCommand; an invocation that has ended waits for nothing.
C19_NothingEscapes ==
  \A i \in 1..Len(inv) :
    /\ inv[i].type \in EditorialTypes => ~inv[i].escaped
    /\ inv[i].escaped =>
         /\ Catcher(i) # "transport"
         /\ inv[i].pc = "done"
    /\ inv[i].pc = "done" =>
         /\ \A j \in 1..Len(SendsOf(i)) : SendsOf(i)[j].result # "pending"
         /\ \A j \in 1..Len(CallsOf(i)) :
              "result" \in DOMAIN CallsOf(i)[j] => CallsOf(i)[j].result # "pending"

\* C19 witness: the text request of a visuals command failed, the failure
\* text was rejected, the error text of the catch block was rejected too,
\* and the exception ended in handleCommand
C19_Witness ==
  \E i \in 1..Len(inv) :
    /\ inv[i].type = "visuals"
    /\ inv[i].pc = "done"
    /\ inv[i].escaped
    /\ CallsOf(i)[1].result = "failed"
    /\ Len(SendsOf(i)) = 2
    /\ \A j \in 1..2 : SendsOf(i)[j].result = "failed"
    /\ Catcher(i) = "handleCommand"

\* invocation i is that of a text message of another user that
\* parseCommand does not match
UnmatchedText(i) ==
  /\ inv[i].type \in {"editorial", "ignored"}
  /\ inv[i].content # NoText
  /\ parseCommand(inv[i].content) = NullCommand

Blank(text) == Trim(text) = <<>>

\* invocation i has started the editorial path with the text of its message
EditorialStarted(i) ==
  /\ inv[i].type = "editorial"
  /\ CallsOf(i) # <<>>
  /\ CallsOf(i)[1].api = "perplexity"
  /\ CallsOf(i)[1].text = inv[i].content

\* invocation i is over and has made no request and sent nothing
NothingDone(i) ==
  /\ inv[i].type = "ignored"
  /\ inv[i].pc = "done"
  /\ CallsOf(i) = <<>>
  /\ SendsOf(i) = <<>>

\* the step that receives the message of invocation i leaves the requests,
\* the messages and the stored headlines as they are
NothingChanges(i) ==
  (Len(inv) < i /\ i <= Len(inv')) => UNCHANGED <<apiCalls, sent, currentHeadlines>>

\* C20 as stated: a text that matches no command starts the editorial path
\* when it comes from the Content group, and does nothing elsewhere.
C20_Original ==
  \A i \in 1..Len(inv) :
    UnmatchedText(i) =>
      IF inv[i].remoteJid = groupJIDs.content THEN EditorialStarted(i)
      ELSE NothingDone(i)

\* C20 amended: a text that matches no command and is not blank starts the
\* editorial path when it comes from the Content group; from any other
\* chat, and when it is blank from any chat, it makes no request, sends
\* nothing and leaves the stored headlines unchanged.
C20_UnmatchedText ==
  /\ [](\A i \in 1..Len(inv) :
          UnmatchedText(i) =>
            IF inv[i].remoteJid = groupJIDs.content /\ ~Blank(inv[i].content)
            THEN EditorialStarted(i)
            ELSE NothingDone(i))
  /\ [][\A i \in 1..Len(inv') :
          (UnmatchedText(i)' /\ ~EditorialStarted(i)') => NothingChanges(i)]_vars

\* C20 witness: the text "11", which is no selection, came from the Content
\* group and started the editorial path
C20_Witness ==
  \E i \in 1..Len(inv) :
    /\ UnmatchedText(i)
    /\ inv[i].content = <<D(1), D(1)>>
    /\ inv[i].remoteJid = groupJIDs.content
    /\ EditorialStarted(i)

(*************************** intake claims ********************************)
\* the event is one of the bot's own account, or has neither a text nor an
\* audio message
OwnOrBare(message) ==
  \/ message.fromMe
  \/ message.messageText = NoText /\ ~message.audioMessage

\* the invocation of an ignored event has ended without a request and
\* without a message
Dropped(i) ==
  /\ inv[i].type \in {"fromMe", "ignored"}
  /\ inv[i].pc = "done"
  /\ CallsOf(i) = <<>>
  /\ SendsOf(i) = <<>>

\* C21: the step that receives an event of the bot's own account, or an
\* event with neither text nor audio, changes no request, no message and
\* no stored headlines, and the invocation it starts has ended and never
\* makes a request or sends a message.
C21_OwnAndBareEventsIgnored ==
  /\ [][\A remoteJid \in Channels, message \in InboundEvents :
          (/\ OwnOrBare(message)
           /\ Len(inv') = Len(inv) + 1
           /\ HandleIncomingMessage(Len(inv) + 1, remoteJid, message)) =>
            /\ UNCHANGED <<apiCalls, sent, currentHeadlines>>
            /\ inv'[Len(inv')].type = IF message.fromMe THEN "fromMe" ELSE "ignored"
            /\ inv'[Len(inv')].pc = "done"]_vars
  /\ [](\A i \in 1..Len(inv) : inv[i].type \in {"fromMe", "ignored"} => Dropped(i))

\* C21 witness: a topic command of the bot's own account arrived in the
\* Content group, whose headlines are still stored, and was dropped
C21_Witness ==
  \E i \in 1..Len(inv) :
    /\ inv[i].type = "fromMe"
    /\ inv[i].remoteJid = groupJIDs.content
    /\ parseCommand(inv[i].content).type = "topic"
    /\ Dropped(i)
    /\ currentHeadlines[groupJIDs.content].present

\* C22: a text message of a chat other than the Content group makes no
\* request and sends no message.
C22_OnlyContentGroup ==
  \A i \in 1..Len(inv) :
    (inv[i].type # "audio" /\ inv[i].remoteJid # groupJIDs.content) =>
      /\ CallsOf(i) = <<>>
      /\ SendsOf(i) = <<>>

(************************* voice and fan-out claims ***********************)
\* the search of the voices of invocation i is over and gave no voice
Unresolved(i) ==
  /\ voiceMappings(ToLowerCase(Trim(inv[i].voiceName))) = ""
  /\ CallsOf(i) # <<>>
  /\ CallsOf(i)[1].api = "voices"
  /\ CallsOf(i)[1].result # "pending"
  /\ inv[i].voiceId # SearchedVoiceId

\* C23: a name of voiceMappings, in any letter case, gives its id without
\* a search; a name that neither the table nor the search resolves is
\* spoken with the default voice, and the requester is sent the text that
\* the voice was not found.
C23_VoiceFallback ==
  \A i \in 1..Len(inv) :
    (inv[i].type = "voice_person" /\ SynthesisOver(i)) =>
      /\ voiceMappings(ToLowerCase(Trim(inv[i].voiceName))) # "" =>
           /\ inv[i].voiceId = voiceMappings(ToLowerCase(Trim(inv[i].voiceName)))
           /\ \A j \in 1..Len(CallsOf(i)) : CallsOf(i)[j].api # "voices"
      /\ Unresolved(i) =>
           /\ inv[i].voiceId = FemaleAnchorId
           /\ \A j \in 1..Len(SpeechCalls(i)) : SpeechCalls(i)[j].voiceId = FemaleAnchorId
           /\ \E j \in 1..Len(SendsOf(i)) :
                /\ SendsOf(i)[j].body.msg = "VoiceNotFound"
                /\ SendsOf(i)[j].remoteJid = inv[i].remoteJid

\* the messages invocation i has sent to the Demo script group
ScriptGroupSends(i) ==
  SelectSeq(SendsOf(i), LAMBDA e : e.remoteJid = groupJIDs.demoScript)

\* C24: in the fan-out of an editorial invocation the heading and the
\* chunks go to the Demo script group in their order, and every message
\* after the first is sent at the end of a pause.
C24_PacedFanOut ==
  /\ [](\A i \in 1..Len(inv) :
          inv[i].type \in EditorialTypes =>
            \A j \in 1..Len(ScriptGroupSends(i)) :
              ScriptGroupSends(i)[j].body =
                IF j = 1 THEN Heading(inv[i].content)
                ELSE Body("raw", inv[i].chunks[j - 1], 0))
  /\ [][\A i \in 1..Len(inv) :
          (/\ inv[i].type \in EditorialTypes
           /\ ScriptGroupSends(i) # <<>>
           /\ Len(ScriptGroupSends(i))' = Len(ScriptGroupSends(i)) + 1) =>
            inv[i].pc = "pace"]_vars

(******************* pipeline specification with fairness *****************)
\* a step of an invocation that has begun: the answer of a request, the
\* outcome of a send, the end of a pause
Continuation ==
  \/ DownloadReturn
  \/ TextReturn
  \/ SendResolves
  \/ PaceDone
  \/ FanOutSendFails
  \/ ReactFails
  \/ ReplyFails
  \/ CatchReplyFails
  \/ VoicesReturn
  \/ TtsReturn
  \/ DelayDone
  \/ HeadlinesReturn
  \/ ScriptReturn
  \/ SendDone
  \/ SendFails
  \/ CatchSendFails

\* every promise an invocation awaits is settled in the end (the request
\* returns or fails, the send resolves or rejects, the timer fires) and the
\* event loop then runs the continuation
PipelineLiveSpec == PipelineSpec /\ WF_vars(Continuation)

\* C25: every invocation that has begun ends, whatever its requests and
\* sends answer, as long as each of them answers; the loop of the speech
\* requests and the loop of the chunks of the script end.
C25_EveryInvocationFinishes ==
  \A i \in 1..MaxMessages :
    (Len(inv) >= i) ~> (Len(inv) >= i /\ inv[i].pc = "done")

\* C25 witness: a voice job of three chunks has ended:
\* it has made its three requests, with a pause
\* after the first and the second, sent its audio and ended
C25_Witness ==
  \E i \in 1..Len(inv) :
    /\ inv[i].type = "voice"
    /\ Len(inv[i].chunks) = 3
    /\ inv[i].k = 3
    /\ Len(SpeechCalls(i)) = 3
    /\ AudioSends(i) # <<>>
    /\ inv[i].pc = "done"

(************************** further chunker claims ************************)
\* a text shorter than maxSize that gives the paragraph pass no reason to
\* emit a chunk before the end: it is shorter than targetSize, or it has
\* one paragraph only
NeedsNoSplit(s) ==
  /\ Len(s) > 0
  /\ TextLen(s) < maxChunkSize
  /\ TextLen(s) < targetChunkSize \/ Len(RealParagraphs(s)) <= 1

\* C26 as stated: the empty text gives no chunk, and a text shorter than
\* maxSize that needs no split gives one chunk equal to the text.
C26_Original ==
  cpc = "done" =>
    /\ script = <<>> => chunks = <<>>
    /\ NeedsNoSplit(script) => chunks = <<script>>

\* C26 amended: the empty text gives no chunk, and a text shorter than
\* maxSize that needs no split gives one chunk: its paragraphs, trimmed and
\* joined by one empty line, or the text itself when it is all whitespace;
\* this is the text itself when it has no outer whitespace and no
\* paragraph separator.
C26_ShortInputOneChunk ==
  cpc = "done" =>
    /\ script = <<>> => chunks = <<>>
    /\ NeedsNoSplit(script) =>
         /\ Len(chunks) = 1
         /\ chunks[1] = IF RealParagraphs(script) = <<>> THEN script
                        ELSE JoinParagraphs(RealParagraphs(script))
         /\ (Trim(script) = script /\ Len(SplitParagraphs(script)) = 1) =>
              chunks[1] = script

\* C26 witness: a short text with a space in front and a separator of three
\* newlines came back as one chunk that is not the text
C26_Witness ==
  /\ cpc = "done"
  /\ NeedsNoSplit(script)
  /\ Len(script) = 6
  /\ script[1] = SP
  /\ SubSeq(script, 3, 5) = <<NL, NL, NL>>
  /\ Len(chunks) = 1
  /\ chunks[1] = <<script[2], NL, NL, script[6]>>

(********************* keyword command specification **********************)
\* messages around the topic, script and visuals commands
KeywordAlphabet ==
  {KW("script", 0), KW("script", 1), KW("topic", 1), KW("visuals", 0),
   COLON, SP, NL, W(1)}

TypeKeywordMessage == TypeMessage(KeywordAlphabet)

KeywordNext == TypeKeywordMessage \/ CallParseCommand

KeywordParseSpec == ParseInit /\ [][KeywordNext]_vars

\* t is the keyword, whitespace or none, a colon, and more text
IsKeywordForm(t, word) ==
  /\ Len(t) >= 3
  /\ t[1].k = word
  /\ FirstColon(t) # 0
  /\ FirstColon(t) < Len(t)
  /\ \A q \in 2..(FirstColon(t) - 1) : IsWS(t[q])

\* C27: a text that, trimmed, is 'script' in any letter case, optional
\* whitespace, a colon, optional whitespace and a content that is not
\* empty is classified Script with that content trimmed; likewise for
\* 'topic' and 'visuals'.
C27_KeywordCommands ==
  ppc = "done" =>
    \A word \in {"topic", "script", "visuals"} :
      LET t == Trim(messageText)
      IN IsKeywordForm(t, word) =>
           cmd = Command(word, Trim(SubSeq(t, FirstColon(t) + 1, Len(t))), <<>>, 0)

\* C27 witness: " Script :\nx" has been classified Script with content "x"
C27_Witness ==
  /\ ppc = "done"
  /\ messageText = <<SP, KW("script", 1), SP, COLON, NL, W(1)>>
  /\ cmd = Command("script", <<W(1)>>, <<>>, 0)

(************************** further pipeline claims ***********************)
\* C28: no path function lets an exception out, whatever its requests and
\* sends do, the send of its result or of its failure text included.
C28_NoEscapeFromPath ==
  \A i \in 1..Len(inv) : ~inv[i].escaped

\* the text is one paragraph without outer whitespace
OneParagraph(s) ==
  /\ Len(s) > 0
  /\ Trim(s) = s
  /\ Len(SplitParagraphs(s)) = 1

\* C29, for a text of one paragraph: the paragraph is appended to the empty
\* buffer, no paragraph remains, so the target rule does not emit it; when
\* it has at least maxSize - 200 characters and a prefix of its sentences
\* has a length in [minSize, maxSize], the shortest such prefix is the first
\* chunk and the other sentences are carried forward.
C29_SentenceSplitInParagraphPass ==
  (/\ cpc = "done"
   /\ OneParagraph(script)
   /\ TextLen(script) >= maxChunkSize - 200
   /\ SentenceBreak(SplitSentences(script)) # 0
   /\ SentenceBreak(SplitSentences(script)) < Len(SplitSentences(script))) =>
    LET sentences == SplitSentences(script)
        brk == SentenceBreak(sentences)
    IN /\ Len(chunks) >= 2
       /\ chunks[1] = Trim(ConcatAll(SubSeq(sentences, 1, brk)))

\* C30: every reaction of the editorial path goes to the Content group and
\* names the message that started the invocation, and that message was
\* received in the Content group, also when it was a topic command.
C30_ReactionTarget ==
  \A i \in 1..Len(inv) :
    inv[i].type \in EditorialTypes =>
      \A j \in 1..Len(SendsOf(i)) :
        SendsOf(i)[j].body.msg = "react" =>
          /\ SendsOf(i)[j].remoteJid = groupJIDs.content
          /\ SendsOf(i)[j].body.key.id = inv[i].messageId
          /\ SendsOf(i)[j].body.key.remoteJid = groupJIDs.content
          /\ inv[i].remoteJid = groupJIDs.content

(*********************** concurrency and store claims *********************)
\* the agenda replies handed to sock.sendMessage for the chat c, in the
\* order of the calls
AgendaReplies(c) ==
  SelectSeq(sent, LAMBDA e : /\ e.remoteJid = c
                             /\ inv[e.inv].type = "agenda"
                             /\ e.body.msg = "raw")

\* C31: at every moment the list stored for a chat is the list parsed from
\* the agenda reply that was handed to the transport last for that chat
\* (none stored when no reply was handed over); with two agendas of one
\* chat in flight this is the list of the one whose request returned last,
\* whichever message arrived first.
C31_LastReturnWins ==
  \A c \in Channels :
    IF AgendaReplies(c) = <<>> THEN currentHeadlines[c] = NoSession
    ELSE /\ currentHeadlines[c].present
         /\ currentHeadlines[c].headlines =
              ExpectedLines(AgendaReplies(c)[Len(AgendaReplies(c))].body.text)

\* C31 witness: two agendas of one chat have ended; the request of the
\* second message returned first, with the ten headlines, the request of
\* the first message returned after it, with the three, and the three are
\* stored
C31_Witness ==
  /\ Len(inv) = 2
  /\ inv[1].type = "agenda" /\ inv[2].type = "agenda"
  /\ inv[1].remoteJid = inv[2].remoteJid
  /\ inv[1].pc = "done" /\ inv[2].pc = "done"
  /\ Len(AgendaReplies(inv[1].remoteJid)) = 2
  /\ AgendaReplies(inv[1].remoteJid)[1].inv = 2
  /\ AgendaReplies(inv[1].remoteJid)[1].body.text = TenHeadlines
  /\ AgendaReplies(inv[1].remoteJid)[2].inv = 1
  /\ AgendaReplies(inv[1].remoteJid)[2].body.text = ThreeHeadlines
  /\ currentHeadlines[inv[1].remoteJid].headlines = ThreeLines

\* the characters of the speech requests of invocation i that are not
\* whitespace, in the order of the requests
SubmittedText(i) ==
  NonBlank(ConcatAll([j \in 1..Len(SpeechCalls(i)) |-> SpeechCalls(i)[j].text]))

\* C32: once the speech requests of a voice job are over, the texts of the
\* requests, in their order, hold every character of the content (up to
\* the whitespace between and around the chunks).
C32_NothingDropped ==
  \A i \in 1..Len(inv) :
    (inv[i].type \in VoiceTypes /\ SynthesisOver(i)) =>
      /\ SubmittedText(i) = NonBlank(inv[i].content)
      /\ TextLen(SubmittedText(i)) = TextLen(NonBlank(inv[i].content))

\* C33: an editorial invocation one of whose sends to the Demo script group
\* was rejected sends no reaction.
C33_ReactionOnlyAfterDelivery ==
  \A i \in 1..Len(inv) :
    (/\ inv[i].type \in EditorialTypes
     /\ \E j \in 1..Len(SendsOf(i)) :
          /\ SendsOf(i)[j].remoteJid = groupJIDs.demoScript
          /\ SendsOf(i)[j].result = "failed") =>
      \A j \in 1..Len(SendsOf(i)) : SendsOf(i)[j].body.msg # "react"


(******************** headlines reply specification ***********************)
\* the longest reply of the headlines service that is composed token by token
MaxReplyTokens == 5

\* replies around numbered lines: digits, the dot, blanks, words, newlines
ReplyAlphabet == {D(1), D(2), DOT, SP, W(1), NL}

\* processAgenda has been called for an "Agenda" of the Content group and
\* awaits callHeadlinesAPI (lines 1297-1301)
AgendaAwaitingReply ==
  /\ now = 0
  /\ currentHeadlines = [c \in Channels |-> NoSession]
  /\ inv = <<[Invocation("agenda", "content", 0, "api", NoSession, 0, <<>>)
               EXCEPT !.response = <<>>]>>
  /\ apiCalls = <<[inv |-> 1, api |-> "headlines", number |-> 0, text |-> <<>>]>>
  /\ sent = <<>>
  /\ ChunkIdle
  /\ ParseIdle

\* the service composes response.data.choices[0].message.content (line 1282)
ComposeReply ==
  /\ inv[1].pc = "api"
  /\ Len(inv[1].response) < MaxReplyTokens
  /\ \E c \in ReplyAlphabet : inv' = [inv EXCEPT ![1].response = Append(@, c)]
  /\ UNCHANGED <<now, currentHeadlines, apiCalls, sent, chunkVars, parseVars>>

\* callHeadlinesAPI returns the composed reply to processAgenda
\* (lines 1301-1320)
ComposedReplyReturns ==
  /\ inv[1].pc = "api"
  /\ inv' = [inv EXCEPT ![1].pc = "send"]
  /\ IF Truthy(inv[1].response)
     THEN /\ currentHeadlines' = StoreHeadlines(currentHeadlines, inv[1].remoteJid,
                                                HeadlineLines(inv[1].response), now)
          /\ sent' = SendMessage(sent, 1, inv[1].remoteJid,
                                 Body("raw", inv[1].response, 0))
     ELSE /\ sent' = SendMessage(sent, 1, inv[1].remoteJid,
                                 Body("FailedToFetchHeadlines", <<>>, 0))
          /\ UNCHANGED currentHeadlines
  /\ UNCHANGED <<now, apiCalls, chunkVars, parseVars>>

AgendaReplyNext ==
  \/ ComposeReply
  \/ ComposedReplyReturns
  \/ SendDone
  \/ SendFails
  \/ CatchSendFails

AgendaReplySpec == AgendaAwaitingReply /\ [][AgendaReplyNext]_vars

\* the integer written by the digits that start the line
RECURSIVE DigitsValue(_, _)
DigitsValue(line, n) ==
  IF n = 0 THEN 0 ELSE 10 * DigitsValue(line, n - 1) + line[n].n

LeadingInteger(line) == DigitsValue(line, AfterDigits(line) - 1)

\* C34: after an agenda reply was stored, the stored list is not empty and
\* its N-th entry is the line whose leading integer is N, for every N.
C34_DisplayedNumberSelected ==
  \A i \in 1..Len(inv) :
    (inv[i].type = "agenda" /\ inv[i].pc # "api" /\ Truthy(inv[i].response)) =>
      LET stored == currentHeadlines[inv[i].remoteJid].headlines
      IN /\ stored # <<>>
         /\ \A N \in 1..Len(stored) : LeadingInteger(stored[N]) = N


(****************** concurrent editorial specification ********************)
\* the number of messages whose handlers may be running at once
MaxEditorial == 2

\* a topic command and a text that is no command
EditorialEvents ==
  {InboundEvent(FALSE, <<KW("topic", 1), COLON, SP, W(70)>>, FALSE),
   InboundEvent(FALSE, <<SP, W(30), SP, W(10)>>, FALSE)}

\* 'messages.upsert' calls handleIncomingMessages while the handler of an
\* earlier message is suspended: the listener registered at line 89 is not
\* awaited
ReceiveEditorialEvent ==
  /\ Len(inv) < MaxEditorial
  /\ \E remoteJid \in Channels, message \in EditorialEvents :
       HandleIncomingMessage(Len(inv) + 1, remoteJid, message)
  /\ UNCHANGED <<now, chunkVars, parseVars>>

EditorialPairNext ==
  \/ ReceiveEditorialEvent
  \/ TextReturn
  \/ SendResolves
  \/ PaceDone
  \/ FanOutSendFails
  \/ ReactFails

EditorialPairSpec == Init /\ [][EditorialPairNext]_vars

\* C35: on the Demo script group, between two sends of one editorial
\* invocation there is no send of another invocation.
C35_NoInterleaving ==
  \A a, b \in 1..Len(sent) :
    (/\ a < b
     /\ sent[a].inv = sent[b].inv
     /\ sent[a].remoteJid = groupJIDs.demoScript
     /\ sent[b].remoteJid = groupJIDs.demoScript) =>
      \A m \in a..b :
        sent[m].remoteJid = groupJIDs.demoScript => sent[m].inv = sent[a].inv


(****************** selection beside agenda specification *****************)
\* the ten headlines have just been stored for the Content group
SessionStored ==
  /\ now = 0
  /\ currentHeadlines =
       StoreHeadlines([c \in Channels |-> NoSession], groupJIDs.content,
                      HeadlineLines(TenHeadlines), 0)
  /\ inv = <<>>
  /\ apiCalls = <<>>
  /\ sent = <<>>
  /\ ChunkIdle
  /\ ParseIdle

SelectionRaceSpec == SessionStored /\ [][Next]_vars

\* the selection invocation i has made a text request
SelectionRequested(i) ==
  /\ inv[i].type = "number"
  /\ CallsOf(i) # <<>>

\* the request and the reply of a selection are those of the session it read
\* when it started
FromStartSession(i) ==
  /\ inv[i].number \in 1..Len(inv[i].userHeadlines.headlines)
  /\ CallsOf(i)[1].text = StripNumberPrefix(inv[i].userHeadlines.headlines[inv[i].number])
  /\ inv[i].pc # "api" =>
       SendsOf(i)[1].body = IF Truthy(inv[i].response)
                            THEN Body("raw", inv[i].response, 0)
                            ELSE Body("FailedToGenerateScript", <<>>, 0)

\* a step in which a selection starts reads the session of its chat as the
\* store holds it before the step; no later step changes what it read or
\* what it requested
StartSessionKept ==
  /\ SelectionStarts =>
       inv'[Len(inv')].userHeadlines = currentHeadlines[inv'[Len(inv')].remoteJid]
  /\ \A i \in 1..Len(inv) :
       inv[i].type = "number" =>
         /\ inv'[i].userHeadlines = inv[i].userHeadlines
         /\ inv'[i].number = inv[i].number
         /\ CallsOf(i)' = CallsOf(i)

\* C36: a headline selection uses the session as it was when the invocation
\* started: the headline requested and the reply are those of that session,
\* whatever an agenda of the same chat stores while the selection is in
\* flight.
C36_SelectionUsesStartSession ==
  /\ [](\A i \in 1..Len(inv) : SelectionRequested(i) => FromStartSession(i))
  /\ [][StartSessionKept]_vars

\* C36 witness: the selection of headline 10 among the ten headlines has
\* sent its script to the chat, and an agenda that returned while it was in
\* flight has left the three headlines in the store
C36_Witness ==
  /\ Len(inv) = 2
  /\ \E i \in 1..2 :
       /\ SelectionRequested(i)
       /\ inv[i].number = 10
       /\ inv[i].userHeadlines.headlines = TenLines
       /\ inv[i].pc = "done"
       /\ SendsOf(i)[1].body = Body("raw", <<W(4000)>>, 0)
       /\ currentHeadlines[inv[i].remoteJid].headlines = ThreeLines
       /\ inv[3 - i].type = "agenda"
       /\ inv[3 - i].remoteJid = inv[i].remoteJid


\* C37: an entry of the store changes only in the step in which an agenda
\* of that chat is fulfilled: no selection, whatever its outcome, no failed
\* agenda and no topic, script, visuals, voice or editorial step changes an
\* entry, removes one or writes the entry of another chat.
C37_StoreWrittenOnlyByAgenda ==
  [][\A c \in Channels :
       currentHeadlines'[c] # currentHeadlines[c] =>
         \E i \in 1..Len(inv) : AgendaFulfilled(i) /\ inv[i].remoteJid = c]_vars

\* C37 witness: a selection of the Content group found the entry stored at
\* time 0 expired and has answered, and the entry is still in the store
C37_Witness ==
  /\ now = 3600001
  /\ Len(inv) = 1
  /\ inv[1].type = "number"
  /\ inv[1].remoteJid = groupJIDs.content
  /\ inv[1].pc = "done"
  /\ SendsOf(1)[1].body.msg = "NoRecentHeadlines"
  /\ currentHeadlines[groupJIDs.content] =
       [present |-> TRUE, headlines |-> TenLines, timestamp |-> 0]


(************************* batch event specification **********************)
\* the most messages in the array m.messages of one event
MaxBatch == 2

\* the number of 'messages.upsert' events
MaxUpserts == 1

\* a message of the array: its chat (message.key.remoteJid) and its content
BatchMessages ==
  {[remoteJid |-> c, message |-> e] : c \in Channels, e \in EditorialEvents}

\* the arrays m.messages: one message, or several
Batches == UNION {[1..n -> BatchMessages] : n \in 1..MaxBatch}

\* 'messages.upsert' calls handleIncomingMessages(m), which reads
\* m.messages[0] and nothing else of m (line 137)
ReceiveUpsert ==
  /\ Len(upserts) < MaxUpserts
  /\ \E messages \in Batches :
       /\ upserts' = Append(upserts, messages)
       /\ HandleIncomingMessage(Len(inv) + 1, messages[1].remoteJid, messages[1].message)
  /\ UNCHANGED <<now, chunkVars, messageText, cmd, ppc>>

BatchNext ==
  \/ ReceiveUpsert
  \/ TextReturn
  \/ SendResolves
  \/ PaceDone
  \/ FanOutSendFails
  \/ ReactFails

BatchSpec == Init /\ [][BatchNext]_vars

\* the number of messages in the events e..Len(upserts)
RECURSIVE MessagesFrom(_)
MessagesFrom(e) ==
  IF e > Len(upserts) THEN 0 ELSE Len(upserts[e]) + MessagesFrom(e + 1)

\* C38: every message of every event received has been given to the
\* handler: there are as many invocations as messages.
C38_EveryMessageHandled == Len(inv) = MessagesFrom(1)


\* C39: every voice_person command that parseCommand returns has a voice
\* name and a content that are not empty.
C39_VoicePersonNamed ==
  (ppc = "done" /\ cmd.type = "voice_person") =>
    /\ cmd.voiceName # <<>>
    /\ cmd.content # <<>>

====
